---- MODULE Spec2Model ----
(***************************************************************************)
(* Booking lifecycle of the marketplace bot: confirm_booking creates a     *)
(* booking row and dispatches it to the listing owner, the owner's         *)
(* accept/reject callbacks and the timeout checker race for the terminal   *)
(* status through guarded UPDATE statements of db_postgres.py.             *)
(*                                                                         *)
(* Every await of the handlers that touches the bookings table is one      *)
(* step; consecutive sends that read no shared state are folded into the   *)
(* step that issues them.  The chat transport is the environment: a send   *)
(* may succeed or fail for any chat id.                                    *)
(***************************************************************************)
EXTENDS Integers, FiniteSets, Sequences, TLC

\* ---------------------------------------------------------------- bounds
MaxBookings == 1
MaxCallbacks == 2
MaxSweepers == 2
MaxNow == 10
MaxMsgId == 1
MaxRegistrations == 2
MaxRows == 1
MaxKeyboards == 2
MaxPhotosSent == 1
MaxPhotoTasks == 2
MaxSchemaRuns == 3
MaxResets == 1
MaxTableRows == 1
MaxThreads == 3
MaxMarks == 2
MaxBatch == 2
MaxRetryAfter == 2
MaxBaseDelay == 2
MaxSendId == 2
MaxHashes == 101
MaxRepeated == 1
MaxPresses == 2
MaxFormBookings == 2
\* granularity of the modelled clock, in minutes
ClockStep == 5

\* ------------------------------------------------------ program constants
\* interval '5 minutes' of the sweep statement; the clock counts minutes
Interval == 5
\* SQL NULL / Python None
NULL == -1
\* chat id of the listing owner (an admin, /add is gated to ADMINS)
OwnerChat == 10
\* chat id of a second admin who owns no listing of the model
OtherAdmin == 30
\* chat id of the booking user
UserChat == 40

\* last instant the bounded clock reaches
LastTick == (MaxNow \div ClockStep) * ClockStep

BookingIds == 1..MaxBookings
CbIds == 1..MaxCallbacks
SweeperIds == 1..MaxSweepers
PhotoTaskIds == 1..MaxPhotoTasks
ThreadIds == 1..MaxThreads
\* message ids a caller of mark_booking_dispatched passes
PartnerMsgIds == 1..MaxMarks
\* the rows one fetch_expired_bookings can return
BatchIds == 1..MaxBatch
\* presses of the confirm button of one booking form
PressIds == 1..MaxPresses
MsgIds == 1..MaxMsgId

ADMINS == {OwnerChat, OtherAdmin}
\* chats that can press a button of an owner prompt
Callers == {OwnerChat, OtherAdmin}

\* listings table: listing 1 was created by the wizard for OwnerChat,
\* listing 2 is a legacy row whose telegram_admin_id got the column default 0
ListingIds == {1, 2}
listings == [l \in ListingIds |-> [telegram_admin_id |-> IF l = 1 THEN OwnerChat ELSE 0]]

NonTerminal == {"pending_partner", "sent"}
Terminal == {"accepted", "rejected", "timeout"}
UserKinds == {"accepted", "rejected", "timeout"}
AdminKinds == {"unreachable", "monitor", "accepted", "rejected", "timeout"}

VARIABLES now, bookings, confirm, cb, sw, ownerSends, prompts, userMsgs, adminMsgs, swept

\* store calls that failed because the database was unavailable, with the
\* value each returned to its caller
VARIABLE dbFailed

\* one chat with the bot: its conversation (FSM state and context), the
\* inline keyboards still attached to a message of the chat, the users
\* table, the rows written by the add-listing wizard and by the booking
\* form, the last update the dispatcher handled, and the number of
\* registrations completed with the values of the last one
VARIABLES fsm, live, users, saved, booked, last, completed

\* photo handlers of the add-listing wizard that run at the same time, each
\* with the photos list it read from the context
VARIABLE photoTasks

chatVars == <<fsm, live, users, saved, booked, last, completed>>

\* the schema of the database, and the last operation on it: its kind, the
\* ALLOW_DB_RESET value it saw, what it returned, how many runs and resets
\* there were and which column and which index an operator dropped
VARIABLES schema, schemaOp

\* the SQLite store of the orders: the connection that holds the write
\* lock, the committed order ids and the last id given; and the create_order
\* calls of the threads
VARIABLES sqlite, orderCalls

\* the calls of mark_booking_dispatched made so far, per booking; the
\* position of timeout_checker_loop in the batch it notifies, and what became
\* of each timeout notice of the batch
VARIABLES marks, sweepLoop, notices

schemaVars == <<schema, schemaOp>>
orderVars == <<sqlite, orderCalls>>
dispatchVars == <<marks, sweepLoop, notices>>

\* the call of retry_telegram in progress; the call of safe_send_html in
\* progress with the requests it made to the transport
VARIABLES retry, send

\* _error_cache of the error handler, as the pairs (hash, last sent) in the
\* order the dict holds them; the clock of time.time(), the number of
\* distinct errors seen, when each repeated error was last forwarded and
\* what the last call of _should_send did
VARIABLES error_cache, errorReports

errorVars == <<error_cache, errorReports>>

\* the booking form of a chat (its context data, the bookings rows and the
\* owner prompts that came of it) and the confirm_booking handlers that run
\* for the presses of its confirm button
VARIABLES form, confirmTasks

\* is_active of each listing, or that its row was deleted; and the user who
\* browses the cards: the card or form in front of them and, for each
\* bookings row they created, what the listing was at that moment
VARIABLES listingStatus, bookingFlow

\* the listings of /my_listings (active, inactive or deleted) and the
\* myl_toggle / myl_delete_execute handler of each admin
VARIABLES adminListings, mylTasks

\* the status of the bookings whose prompts carry a short id, and the
\* accept / reject handler that runs for a pressed prompt
VARIABLES promptStatus, promptTask

confirmVars == <<form, confirmTasks>>
raceVars == <<listingStatus, bookingFlow>>
mylVars == <<adminListings, mylTasks>>
shortVars == <<promptStatus, promptTask>>
lateVars == <<confirmVars, raceVars, mylVars, shortVars>>
serviceVars == <<retry, send, errorVars, lateVars>>
otherVars == <<photoTasks, schemaVars, orderVars, dispatchVars, serviceVars>>

bookingVars == <<now, bookings, confirm, cb, sw, ownerSends, prompts, userMsgs, adminMsgs,
                 swept, dbFailed>>

\* everything but the variables of lateVars
baseVars == <<retry, send, errorVars, chatVars, bookingVars, photoTasks, schemaVars, orderVars,
              dispatchVars>>

vars == <<now, bookings, confirm, cb, sw, ownerSends, prompts, userMsgs, adminMsgs, swept,
          dbFailed, fsm, live, users, saved, booked, last, completed, photoTasks,
          schema, schemaOp, sqlite, orderCalls, marks, sweepLoop, notices,
          retry, send, error_cache, errorReports, form, confirmTasks,
          listingStatus, bookingFlow, adminListings, mylTasks,
          promptStatus, promptTask>>

\* ------------------------------------------------------------- helpers
\* Python truthiness of an optional integer
Truthy(x) == x # NULL /\ x # 0

NoRow == [status |-> "none", created_at |-> NULL, dispatched_at |-> NULL,
          partner_message_id |-> NULL, owner_user_id |-> NULL,
          listing_id |-> NULL, user_telegram_id |-> NULL]

Exists(b) == bookings[b].status # "none"

COALESCE(x, y) == IF x # NULL THEN x ELSE y

\* _row_to_listing: get_listing does not select owner_user_id, so the dict
\* value is always the telegram_admin_id fallback
row_to_listing_owner(l) == listings[l].telegram_admin_id

\* owner_user_id computed by confirm_booking from the listing snapshot
confirm_owner_user_id(l) ==
    IF Truthy(row_to_listing_owner(l)) THEN row_to_listing_owner(l)
    ELSE listings[l].telegram_admin_id

\* create_booking: the INSERT stores NULL for a falsy owner
create_booking(l, t) ==
    [status |-> "pending_partner", created_at |-> t, dispatched_at |-> NULL,
     partner_message_id |-> NULL,
     owner_user_id |-> IF Truthy(confirm_owner_user_id(l)) THEN confirm_owner_user_id(l) ELSE NULL,
     listing_id |-> l, user_telegram_id |-> UserChat]

\* _get_owner_id over the joined row (booking + listing.telegram_admin_id)
get_owner_id(row) ==
    LET owner == IF Truthy(row.owner_user_id) THEN row.owner_user_id
                 ELSE listings[row.listing_id].telegram_admin_id
    IN IF Truthy(owner) THEN owner ELSE 0

\* variant: the prompt is sent without looking at the resolved owner
HasOwner_unchecked(owner_id) == TRUE

\* dispatch_booking_to_owner: `if not owner_id: return False`
HasOwner(owner_id) == owner_id # 0

\* variant: the booking is marked whatever the send returned
SendSucceeded_ignored(message_id) == TRUE

\* dispatch_booking_to_owner: `if message_id:`
SendSucceeded(message_id) == message_id # NULL /\ message_id # 0

\* variant: the UPDATE matches the booking whatever its status
mark_dispatched_where_any(row) == row.status # "none"

\* WHERE clause of mark_booking_dispatched
mark_dispatched_where(row) == row.status = "pending_partner"

\* SET clause of mark_booking_dispatched
mark_dispatched_set(row, msg, t) ==
    [row EXCEPT !.status = "sent", !.dispatched_at = t,
                !.partner_message_id = COALESCE(row.partner_message_id, msg)]

\* variant: the UPDATE guards the owner only, not the current status
decision_where_nostatus(row, owner) ==
    row.status # "none" /\ row.owner_user_id = owner

\* WHERE clause of accept_booking_atomic / reject_booking_atomic
decision_where(row, owner) ==
    row.status \in {"pending_partner", "sent"} /\ row.owner_user_id = owner

\* variant: the sweep looks at the deadline only, not at the status
expired_where_nostatus(row, t) ==
    /\ row.status # "none"
    /\ COALESCE(row.dispatched_at, row.created_at) + Interval < t

\* variant: the sweep forgets the bookings that were never dispatched
expired_where_sentonly(row, t) ==
    /\ row.status = "sent"
    /\ COALESCE(row.dispatched_at, row.created_at) + Interval < t

\* variant: a booking expires at its deadline, not after it
expired_where_inclusive(row, t) ==
    /\ row.status \in {"pending_partner", "sent"}
    /\ COALESCE(row.dispatched_at, row.created_at) + Interval <= t

\* WHERE clause of the UPDATE inside fetch_expired_bookings, t = NOW()
expired_where(row, t) ==
    /\ row.status \in {"pending_partner", "sent"}
    /\ COALESCE(row.dispatched_at, row.created_at) + Interval < t

\* variant: a row found in the snapshot is updated without a second look
expired_recheck_skipped(row, t) == TRUE

\* the same WHERE clause evaluated again on the latest version of a row
\* once the UPDATE holds its lock (READ COMMITTED)
expired_recheck(row, t) == expired_where(row, t)

\* variant: the handler only checks that the booking has an owner
IsOwnerCaller_anyone(from_user, owner_id) == owner_id # 0

\* accept_booking / reject_booking: the owner-only check
IsOwnerCaller(from_user, owner_id) == owner_id # 0 /\ from_user = owner_id

\* accept_booking / reject_booking: the pre-read status check
StillOpen(status) == status \in {"pending_partner", "sent"}

Outcome(kind) == IF kind = "accept" THEN "accepted" ELSE "rejected"

IdleConfirm == [pc |-> "idle", message_id |-> NULL, success |-> "none", reply |-> "none"]
IdleCb == [pc |-> "idle", kind |-> "none", booking |-> 0, from_user |-> 0,
           owner_id |-> 0, result |-> "none"]
\* a handler that returned: its locals are gone, what it answered is kept
DoneCb(b, c, kind, result) ==
    [pc |-> "done", kind |-> IF result = "applied" THEN kind ELSE "none", booking |-> b,
     from_user |-> c, owner_id |-> 0, result |-> result]
IdleSw == [pc |-> "sleep", t |-> NULL, todo |-> {}, got |-> {}]

\* ------------------------------------------------------ conversations
\* chat id of the chat whose conversation is modelled: an admin, so that
\* the add-listing wizard is open to it
ChatId == OwnerChat

\* a key of the FSM context that was never written, the Python None, and
\* any other Python value
Absent == [t |-> "absent"]
None == [t |-> "None"]
V(v) == [t |-> "val", v |-> v]

\* dict.get(key, default): the default only replaces a missing key
Get(data, key, default) == IF data[key] = Absent THEN default ELSE data[key]

\* Python truthiness of a context value
Falsy(x) == x \in {Absent, None, V(0), V(<<>>)}

\* keys of the FSM context written by the handlers of the three flows
Keys == {"phone", "first_name",
         "admin_id", "photos", "category", "subtype", "title", "description", "region",
         "price_from", "latitude", "longitude",
         "listings", "current_index", "selected_listing",
         "booking_listing_id", "guest_count", "guest_names", "registered_name",
         "registered_phone", "booking_phone", "booking_date", "booking_note"}

\* state.clear(): no state, empty context
EmptyData == [k \in Keys |-> Absent]
\* timeout_checker_loop in asyncio.sleep(30)
SleepingLoop == [pc |-> "sleep", expired |-> 0, booking |-> 0, recipient |-> 0]
\* who gets a timeout notice of a booking, in the order of the loop: the
\* booking's user, then every admin of ADMINS
TimeoutRecipients == <<UserChat, OwnerChat, OtherAdmin>>
\* no notice of the batch was attempted yet
NoNotices == [b \in BatchIds |-> [r \in 1..Len(TimeoutRecipients) |-> "none"]]
\* the user has not reached the confirmation step of the booking form
NoForm == [data |-> "none", rows |-> 0, prompts |-> 0]
\* The listings table in the order of created_at: the owner
\* (telegram_admin_id) and the first 8 characters of the id.  Listings 1, 2
\* and 4 have ids that start alike
MyListingRows ==
    <<[telegram_admin_id |-> OwnerChat, short |-> "aaaaaaaa"],
      [telegram_admin_id |-> OtherAdmin, short |-> "aaaaaaaa"],
      [telegram_admin_id |-> OwnerChat, short |-> "bbbbbbbb"],
      [telegram_admin_id |-> OwnerChat, short |-> "aaaaaaaa"]>>
\* The bookings table: the owner and the first 8 characters of the id
\* (gen_random_uuid).  The ids of bookings 1 and 2 start alike
PromptRows ==
    <<[owner_user_id |-> OwnerChat, short |-> "aaaaaaaa"],
      [owner_user_id |-> OwnerChat, short |-> "aaaaaaaa"],
      [owner_user_id |-> OtherAdmin, short |-> "bbbbbbbb"]>>
\* no prompt button was pressed
IdlePrompt == [pc |-> "idle", kind |-> "none", pressed |-> 0, booking |-> 0]
\* no button of /my_listings was pressed by the admin
IdleMyl == [pc |-> "idle", op |-> "none", short |-> "", listing |-> 0, is_active |-> FALSE]
\* the user looks at no card and has booked nothing
NoFlow == [pc |-> "idle", listing |-> 0, created |-> <<>>]
\* the press of the confirm button has not arrived
IdlePress == [pc |-> "idle", listing_id |-> "none", reply |-> "none"]
THROTTLE_SECONDS == 30
\* no error was reported yet; time.time() is seconds since 1970, more
\* than a throttle window
NoReports == [now |-> THROTTLE_SECONDS, fresh |-> 0, forwarded |-> [h \in 1..MaxRepeated |-> NULL],
              last |-> [error_hash |-> 0, sent |-> FALSE, before |-> NULL, evicted |-> {}]]
\* safe_send_html was not called
NoSend == [pc |-> "idle", chat_id |-> 0, text |-> "", reply_markup |-> "None",
           requests |-> <<>>, first |-> [kind |-> "none", message_id |-> NULL],
           second |-> [kind |-> "none", message_id |-> NULL], result |-> NULL]
\* retry_telegram was not called
NoRetry == [pc |-> "idle", awaitable |-> "none", base_delay |-> 0, attempt |-> 0, calls |-> 0,
            first |-> [outcome |-> "none", retry_after |-> 0],
            slept |-> <<>>, result |-> "none"]
IdleCall == [pc |-> "idle", waited |-> 0, order_id |-> 0, result |-> 0]
IdlePhotoTask == [pc |-> "idle", photos |-> <<>>]
IdleFsm == [state |-> "none", data |-> EmptyData]

NoUpdate == [type |-> "none", flow |-> "none", cancel |-> FALSE, own |-> FALSE,
             text |-> <<>>]
NoCompletion == [n |-> 0, phone |-> <<>>, first_name |-> <<>>, last_name |-> <<>>]

\* ---------------------------------------------------------------- text
\* A text is the sequence of its characters.
Digits == {"0", "1", "2", "3", "4", "5", "6", "7", "8", "9"}

\* str.isdigit()
isdigit(s) == Len(s) > 0 /\ \A i \in 1..Len(s) : s[i] \in Digits

RECURSIVE lstrip(_)
lstrip(s) == IF s # <<>> /\ Head(s) = " " THEN lstrip(Tail(s)) ELSE s

RECURSIVE rstrip(_)
rstrip(s) == IF s # <<>> /\ s[Len(s)] = " " THEN rstrip(SubSeq(s, 1, Len(s) - 1)) ELSE s

\* str.strip()
strip(s) == rstrip(lstrip(s))

\* str.lower(), on the letters the inputs of the model contain
lower(s) ==
    [i \in 1..Len(s) |-> CASE s[i] = "A" -> "a" [] s[i] = "V" -> "v" [] s[i] = "S" -> "s"
                           [] s[i] = "B" -> "b" [] s[i] = "C" -> "c" [] s[i] = "T" -> "t"
                           [] s[i] = "R" -> "r" [] s[i] = "U" -> "u" [] s[i] = "E" -> "e"
                           [] OTHER -> s[i]]

\* str.startswith()
startswith(s, prefix) ==
    Len(s) >= Len(prefix) /\ SubSeq(s, 1, Len(prefix)) = prefix

DigitValue(c) ==
    CASE c = "0" -> 0 [] c = "1" -> 1 [] c = "2" -> 2 [] c = "3" -> 3 [] c = "4" -> 4
      [] c = "5" -> 5 [] c = "6" -> 6 [] c = "7" -> 7 [] c = "8" -> 8 [] c = "9" -> 9

RECURSIVE int(_)
\* int() of a string of digits
int(s) == IF s = <<>> THEN 0 ELSE 10 * int(SubSeq(s, 1, Len(s) - 1)) + DigitValue(s[Len(s)])

\* re.sub(r"\D", "", raw): the digits of a text, in order
digits_of(s) == SelectSeq(s, LAMBDA c : c \in Digits)

\* commands and control words
T_start == <<"/", "s", "t", "a", "r", "t">>
T_add == <<"/", "a", "d", "d">>
T_browse == <<"/", "b", "r", "o", "w", "s", "e">>
T_cancel == <<"/", "c", "a", "n", "c", "e", "l">>
T_skip == <<"/", "s", "k", "i", "p">>
T_done == <<"/", "d", "o", "n", "e">>
\* button texts of the reply keyboard kb_phone_choice; "[ok]" and "[pen]"
\* stand for the one-character emoji of the labels
T_use_registered == <<"[ok]", " ", "S", "h", "u", " ", "r", "a", "q", "a", "m">>
T_other_number == <<"[pen]", " ", "B", "o", "s", "h", "q", "a", " ", "r", "a", "q", "a", "m">>
\* a name, a one-letter text, a number of guests, a local phone number
T_name == <<"A", "l", "i", " ", "V">>
T_letter == <<"A">>
T_two == <<"2">>
T_one == <<"1">>
\* guest counts out of range
T_zero == <<"0">>
T_eleven == <<"1", "1">>
\* two names, one per line
T_two_names == T_name \o <<"\n">> \o <<"B", "o", "b", "o">>
T_local_phone == <<"9", "0", "1", "2", "3", "4", "5", "6", "7">>
\* a date as the form suggests it
T_date == <<"1", "5", "-", "f", "e", "v", "r", "a", "l">>

\* contact.phone_number as Telegram clients send it: international format
\* with or without the leading plus
ContactPhoneBare == <<"9", "9", "8", "9", "0", "1", "2", "3", "4", "5", "6", "7">>
ContactPhonePlus == <<"+">> \o ContactPhoneBare

\* -------------------------------------------------------------- updates
TextMsg(t) == [type |-> "text", value |-> t, own |-> FALSE, kb |-> "none"]
\* a shared contact: its phone number, and whether contact.user_id is the
\* sender
ContactMsg(phone, own) == [type |-> "contact", value |-> phone, own |-> own, kb |-> "none"]
LocationMsg == [type |-> "location", value |-> <<"3", "9", ".", "9">>, own |-> FALSE, kb |-> "none"]
PhotoMsg == [type |-> "photo", value |-> <<>>, own |-> FALSE, kb |-> "none"]
\* a button of the inline keyboard kb of a message of the chat; data is
\* callback.data split at the colons
Callback(data, kb) == [type |-> "callback", value |-> data, own |-> FALSE, kb |-> kb]

\* `message.text or ""`
text_of(u) == IF u.type = "text" THEN u.value ELSE <<>>

\* the Command(...) filter
is_command(u, command) == u.type = "text" /\ u.value = command

AddListingStates ==
    {"AddListing:category", "AddListing:hotel_type", "AddListing:title",
     "AddListing:description", "AddListing:region", "AddListing:subtype",
     "AddListing:price", "AddListing:phone", "AddListing:location",
     "AddListing:photos", "AddListing:confirm"}
RegistrationStates ==
    {"Registration:contact", "Registration:first_name", "Registration:last_name"}
BrowseStates ==
    {"BrowseState:region", "BrowseState:category", "BrowseState:subtype",
     "BrowseState:listing"}
BookingFormStates ==
    {"BookingForm:guest_count", "BookingForm:extra_guest_names",
     "BookingForm:phone_choice", "BookingForm:phone_manual", "BookingForm:date",
     "BookingForm:note", "BookingForm:confirm"}

\* the cancel command, or a cancel button
IsCancel(u) ==
    \/ u.type = "text" /\ lower(strip(u.value)) = T_cancel
    \/ u.type = "callback" /\ u.value \in {<<"wiz", "cancel">>, <<"uf", "bcancel">>}

\* what is remembered of the update handled last: its kind, the flow prefix
\* of a callback, whether it asked to cancel, whether a contact is the
\* sender's own, and the text of a message
Seen(u) ==
    [type |-> u.type,
     flow |-> IF u.type = "callback" THEN u.value[1] ELSE "none",
     cancel |-> IsCancel(u),
     own |-> u.own,
     text |-> text_of(u)]

\* AdminFilter of listing_wizard_router
AdminFilter(from_user) == from_user \in ADMINS

\* message handlers of listing_wizard_router in the order they are
\* registered: the first whose filters match handles the message
wizard_message_handler(state, u) ==
    IF is_command(u, T_add) THEN "cmd_add"
    ELSE IF state = "AddListing:title" THEN "step_title"
    ELSE IF state = "AddListing:description" THEN "step_description"
    ELSE IF state = "AddListing:price" THEN "step_price"
    ELSE IF state = "AddListing:phone" THEN "step_phone"
    ELSE IF state = "AddListing:location" /\ u.type = "location" THEN "step_location_received"
    ELSE IF state = "AddListing:location" THEN "step_location_text"
    ELSE IF state = "AddListing:photos" /\ u.type = "photo" THEN "step_photos_received"
    ELSE IF state = "AddListing:photos" THEN "step_photos_text"
    ELSE IF is_command(u, T_cancel) /\ state \in AddListingStates THEN "cmd_cancel"
    ELSE "unhandled"

\* message handlers of user_flow_router in the order they are registered
user_flow_message_handler(state, u) ==
    IF state = "Registration:contact" /\ u.type = "contact" THEN "process_contact"
    ELSE IF state = "Registration:contact" THEN "process_contact_fallback"
    ELSE IF state = "Registration:first_name" THEN "process_first_name"
    ELSE IF state = "Registration:last_name" THEN "process_last_name"
    ELSE IF is_command(u, T_browse) THEN "cmd_browse"
    ELSE IF state = "none" /\ u.type = "text" THEN "handle_unknown_text"
    ELSE IF state = "BookingForm:guest_count" THEN "booking_guest_count"
    ELSE IF state = "BookingForm:extra_guest_names" THEN "booking_extra_names"
    ELSE IF state = "BookingForm:phone_choice" /\ text_of(u) = T_use_registered
         THEN "booking_phone_use_registered"
    ELSE IF state = "BookingForm:phone_choice" /\ text_of(u) = T_other_number
         THEN "booking_phone_ask_manual"
    ELSE IF state = "BookingForm:phone_choice" THEN "booking_phone_choice_fallback"
    ELSE IF state = "BookingForm:phone_manual" /\ u.type = "contact" THEN "booking_phone_contact"
    ELSE IF state = "BookingForm:phone_manual" THEN "booking_phone_manual"
    ELSE IF state = "BookingForm:date" THEN "booking_date"
    ELSE IF state = "BookingForm:note" THEN "booking_note"
    ELSE "unhandled"

\* the dispatcher's own handlers come first, then the routers in the order
\* main() includes them
message_handler(state, u) ==
    IF is_command(u, T_start) THEN "cmd_start"
    ELSE IF AdminFilter(ChatId) /\ wizard_message_handler(state, u) # "unhandled"
         THEN wizard_message_handler(state, u)
    ELSE user_flow_message_handler(state, u)

\* callback handlers: every one filters on the prefix of callback.data
\* only, none on the state of the conversation
callback_handler(u) ==
    LET d == u.value IN
    IF d[1] = "wiz" /\ AdminFilter(ChatId)
    THEN CASE d[2] = "cat" -> "step_category"
           [] d[2] = "region" -> "step_region"
           [] d[2] = "sub" -> "step_hotel_type"
           [] d[2] = "save" -> "step_save"
           [] d[2] = "cancel" -> "cancel_callback"
           [] OTHER -> "unhandled"
    ELSE IF d[1] = "uf"
    THEN CASE d[2] = "region" -> "select_region"
           [] d[2] = "cat" -> "select_category"
           [] d[2] = "sub" -> "select_subtype"
           [] d[2] = "page" -> "paginate_listings"
           [] d[2] = "pick" -> "pick_listing"
           [] d[2] = "back" /\ d[3] = "region" -> "back_to_region"
           [] d[2] = "back" /\ d[3] = "category" -> "back_to_category"
           [] d[2] = "back" /\ d[3] = "list" -> "back_to_list"
           [] d[2] = "book" -> "start_booking"
           [] d[2] = "bconfirm" -> "confirm_booking"
           [] d[2] = "bcancel" -> "cancel_booking"
           [] OTHER -> "unhandled"
    ELSE "unhandled"

\* the handler the dispatcher runs for an update
Handler(state, u) ==
    IF u.type = "callback" THEN callback_handler(u) ELSE message_handler(state, u)

\* ------------------------------------------------------ schema bootstrap
\* The public schema of the database: its tables, their columns, the
\* indexes (name, table, columns), the foreign keys, the number of rows of
\* each table and whether a bookings row refers to no listing.  `error` is
\* set by the statement that raised.
TableNames == {"listings", "bookings", "users", "partners"}

EmptyDb ==
    [tables |-> {}, columns |-> {}, indexes |-> {}, constraints |-> {},
     rows |-> [t \in TableNames |-> 0], orphans |-> FALSE, error |-> FALSE]

\* a database of the old schema: a booking of a partners table
LegacyDb ==
    [EmptyDb EXCEPT !.tables = {"partners", "bookings"},
                    !.rows = [@ EXCEPT !["partners"] = 1, !["bookings"] = 1],
                    !.orphans = TRUE,
                    !.columns = {<<"partners", "id">>, <<"bookings", "id">>,
                                 <<"bookings", "partner_id">>,
                                 <<"bookings", "service_type">>}]

\* conn.execute(statement) as PostgreSQL runs it: a statement on an object
\* that is missing, or that creates an object that exists, raises; after
\* an exception nothing more is executed
execute(db, s) ==
    LET cols(t) == {c \in {x[2] : x \in db.columns} : <<t, c>> \in db.columns}
        raise == [db EXCEPT !.error = TRUE]
    IN IF db.error THEN db
       ELSE CASE s.kind = "CREATE TABLE" ->
                   IF s.table \in db.tables THEN raise
                   ELSE [db EXCEPT !.tables = @ \cup {s.table},
                                   !.columns = @ \cup {<<s.table, c>> : c \in s.columns},
                                   !.indexes = @ \cup s.implicit]
              [] s.kind = "ADD COLUMN" ->
                   IF s.table \notin db.tables \/ s.column \in cols(s.table) THEN raise
                   ELSE [db EXCEPT !.columns = @ \cup {<<s.table, s.column>>}]
              [] s.kind = "RENAME COLUMN" ->
                   IF s.table \notin db.tables \/ s.column \notin cols(s.table)
                        \/ s.to \in cols(s.table) THEN raise
                   ELSE [db EXCEPT !.columns = (@ \ {<<s.table, s.column>>})
                                                 \cup {<<s.table, s.to>>}]
              [] s.kind = "CREATE INDEX" ->
                   IF \/ s.table \notin db.tables
                      \/ ~(s.columns \subseteq cols(s.table))
                      \/ \E i \in db.indexes : i.name = s.name
                   THEN raise
                   ELSE [db EXCEPT !.indexes = @ \cup
                           {[name |-> s.name, table |-> s.table, columns |-> s.columns]}]
              [] s.kind = "ADD CONSTRAINT" ->
                   IF \/ s.table \notin db.tables \/ s.column \notin cols(s.table)
                      \/ s.name \in db.constraints \/ ~s.valid
                   THEN raise
                   ELSE [db EXCEPT !.constraints = @ \cup {s.name}]
              [] s.kind = "UPDATE" ->
                   IF s.table \notin db.tables \/ ~(s.columns \subseteq cols(s.table))
                   THEN raise ELSE db
              [] s.kind = "DROP TABLE IF EXISTS CASCADE" ->
                   [db EXCEPT !.tables = @ \ {s.table},
                              !.columns = {x \in @ : x[1] # s.table},
                              !.indexes = {i \in @ : i.table # s.table},
                              !.constraints = IF s.table \in {"bookings", "listings"}
                                              THEN {} ELSE @,
                              !.rows = [@ EXCEPT ![s.table] = 0],
                              !.orphans = IF s.table = "bookings" THEN FALSE
                                          ELSE IF s.table = "listings"
                                          THEN db.rows["bookings"] > 0
                                          ELSE @]

table_exists(db, table_name) == table_name \in db.tables
column_exists(db, table_name, column_name) == <<table_name, column_name>> \in db.columns
constraint_exists(db, constraint_name) == constraint_name \in db.constraints
index_exists(db, index_name) == \E i \in db.indexes : i.name = index_name

\* variant: the column is added without looking whether it exists
add_column_unchecked(db, table, column) ==
    execute(db, [kind |-> "ADD COLUMN", table |-> table, column |-> column])

\* add_column_if_not_exists
add_column_if_not_exists(db, table, column) ==
    IF db.error \/ column_exists(db, table, column) THEN db
    ELSE execute(db, [kind |-> "ADD COLUMN", table |-> table, column |-> column])

\* create_index_safe
create_index_safe(db, index_name, table, columns) ==
    IF db.error \/ index_exists(db, index_name) THEN db
    ELSE execute(db, [kind |-> "CREATE INDEX", name |-> index_name, table |-> table,
                      columns |-> columns])

RECURSIVE add_columns(_, _, _)
\* a run of add_column_if_not_exists calls on one table, each on the
\* database the call before it left
add_columns(db, table, columns) ==
    IF columns = <<>> THEN db
    ELSE CHOOSE out \in {add_columns(d, table, Tail(columns)) :
                            d \in {add_column_if_not_exists(db, table, Head(columns))}} : TRUE

RECURSIVE create_indexes(_, _)
\* a run of create_index_safe calls
create_indexes(db, indexes) ==
    IF indexes = <<>> THEN db
    ELSE CHOOSE out \in {create_indexes(d, Tail(indexes)) :
                            d \in {create_index_safe(db, Head(indexes).name,
                                                     Head(indexes).table,
                                                     Head(indexes).columns)}} : TRUE

RECURSIVE drop_tables(_, _)
\* a run of DROP TABLE IF EXISTS ... CASCADE statements
drop_tables(db, tables) ==
    IF tables = <<>> THEN db
    ELSE CHOOSE out \in {drop_tables(d, Tail(tables)) :
                            d \in {execute(db, [kind |-> "DROP TABLE IF EXISTS CASCADE",
                                                table |-> Head(tables)])}} : TRUE

\* ensure_schema, its n-th section on the database the sections before it
\* left.  The exception of the ADD CONSTRAINT statement is caught on the
\* spot, every other one ends the run
ensure_schema_section(db, n) ==
    CASE n = 1 ->
           IF ~table_exists(db, "listings")
           THEN execute(db, [kind |-> "CREATE TABLE", table |-> "listings",
                    columns |-> {"id", "region", "category", "subtype", "title",
                                 "description", "price_from", "currency", "phone",
                                 "telegram_admin_id", "latitude", "longitude", "address",
                                 "photos", "is_active", "created_at"},
                    implicit |-> {}])
           ELSE add_columns(db, "listings",
                    <<"currency", "phone", "latitude", "longitude", "address", "photos",
                      "is_active", "subtype", "region", "category", "telegram_admin_id">>)
      [] n = 2 ->
           LET has_partner_id == column_exists(db, "bookings", "partner_id")
               has_listing_id == column_exists(db, "bookings", "listing_id")
           IN IF ~table_exists(db, "bookings") THEN db
              ELSE IF has_partner_id /\ ~has_listing_id
              THEN execute(db, [kind |-> "RENAME COLUMN", table |-> "bookings",
                                column |-> "partner_id", to |-> "listing_id"])
              ELSE IF ~has_listing_id
              THEN execute(db, [kind |-> "ADD COLUMN", table |-> "bookings",
                                column |-> "listing_id"])
              ELSE db
      [] n = 3 ->
           IF ~table_exists(db, "bookings")
           THEN execute(db, [kind |-> "CREATE TABLE", table |-> "bookings",
                    columns |-> {"id", "listing_id", "user_telegram_id", "payload", "status",
                                 "expires_at", "created_at"},
                    implicit |-> {}])
           ELSE add_columns(db, "bookings",
                    <<"user_telegram_id", "payload", "status", "expires_at", "created_at">>)
      [] n = 4 ->
           LET tried == execute(db, [kind |-> "ADD CONSTRAINT", table |-> "bookings",
                                     column |-> "listing_id",
                                     name |-> "bookings_listing_id_fkey",
                                     valid |-> ~db.orphans])
           IN IF db.error \/ constraint_exists(db, "bookings_listing_id_fkey") THEN db
              ELSE IF tried.error THEN db ELSE tried
      [] n = 5 ->
           create_indexes(db,
             <<[name |-> "idx_listings_region_category", table |-> "listings",
                columns |-> {"region", "category", "is_active"}],
               [name |-> "idx_listings_admin", table |-> "listings",
                columns |-> {"telegram_admin_id"}],
               [name |-> "idx_bookings_listing_status", table |-> "bookings",
                columns |-> {"listing_id", "status"}],
               [name |-> "idx_bookings_user_created", table |-> "bookings",
                columns |-> {"user_telegram_id", "created_at"}],
               [name |-> "idx_bookings_expires", table |-> "bookings",
                columns |-> {"expires_at", "status"}]>>)
      [] n = 6 ->
           IF db.error \/ table_exists(db, "users") THEN db
           ELSE execute(db, [kind |-> "CREATE TABLE", table |-> "users",
                    columns |-> {"id", "telegram_id", "phone", "first_name", "last_name",
                                 "created_at", "updated_at"},
                    implicit |-> {[name |-> "users_telegram_id_key", table |-> "users",
                                   columns |-> {"telegram_id"}]}])
      [] n = 7 -> create_index_safe(db, "users_telegram_id_uq", "users", {"telegram_id"})
      [] n = 8 -> add_column_if_not_exists(db, "listings", "owner_user_id")
      [] n = 9 -> execute(db, [kind |-> "UPDATE", table |-> "listings",
                               columns |-> {"owner_user_id", "telegram_admin_id"}])
      [] n = 10 -> add_columns(db, "bookings",
                               <<"owner_user_id", "partner_message_id", "dispatched_at">>)
      [] OTHER ->
           create_indexes(db,
             <<[name |-> "bookings_status_expires_idx", table |-> "bookings",
                columns |-> {"status", "expires_at"}],
               [name |-> "bookings_owner_idx", table |-> "bookings",
                columns |-> {"owner_user_id"}],
               [name |-> "listings_owner_idx", table |-> "listings",
                columns |-> {"owner_user_id"}]>>)

RECURSIVE ensure_schema_from(_, _)
\* the sections of ensure_schema from the n-th one on
ensure_schema_from(db, n) ==
    IF n > 11 THEN db
    ELSE CHOOSE out \in {ensure_schema_from(d, n + 1) :
                            d \in {ensure_schema_section(db, n)}} : TRUE

\* ensure_schema: the database it leaves
ensure_schema(db0) == CHOOSE out \in {ensure_schema_from(d, 1) : d \in {db0}} : TRUE

\* nothing was done to the schema yet
NoSchemaOp ==
    [op |-> "none", value |-> <<>>, ok |-> TRUE, runs |-> 0, resets |-> 0,
     dropped |-> [column |-> <<>>, index |-> <<>>]]

\* the schema a run on an empty database leaves
BootstrappedDb == ensure_schema(EmptyDb)

\* os.getenv("ALLOW_DB_RESET", ...).lower() == "true"
allow_reset(value) == lower(value) = <<"t", "r", "u", "e">>

\* reset_schema: the database it leaves and the value it returns
reset_schema(db, value) ==
    IF ~allow_reset(value) THEN [db |-> db, ok |-> FALSE]
    ELSE CHOOSE out \in
           {[db |-> [ensured EXCEPT !.error = FALSE], ok |-> ~ensured.error] :
              ensured \in {ensure_schema(
                  drop_tables(db, <<"bookings", "listings", "users", "partners">>))}} : TRUE

\* reset_database: as reset_schema, but the users table is kept
reset_database(db, value) ==
    IF ~allow_reset(value) THEN [db |-> db, ok |-> FALSE]
    ELSE CHOOSE out \in
           {[db |-> [ensured EXCEPT !.error = FALSE], ok |-> ~ensured.error] :
              ensured \in {ensure_schema(
                  drop_tables(db, <<"bookings", "listings", "partners">>))}} : TRUE


\* ---------------------------------------------------------------- Init
\* the bookings table is empty, no handler is running, the sweepers sleep
BookingInit ==
    /\ now = 0
    /\ bookings = [b \in BookingIds |-> NoRow]
    /\ confirm = [b \in BookingIds |-> IdleConfirm]
    /\ cb = [p \in CbIds |-> IdleCb]
    /\ sw = [s \in SweeperIds |-> IdleSw]
    /\ ownerSends = [b \in BookingIds |-> 0]
    /\ prompts = [b \in BookingIds |-> 0]
    /\ userMsgs = [b \in BookingIds |-> [k \in UserKinds |-> 0]]
    /\ adminMsgs = [b \in BookingIds |-> [k \in AdminKinds |-> [a \in ADMINS |-> 0]]]
    /\ swept = [b \in BookingIds |-> 0]
    /\ dbFailed = {}

\* no conversation is active and the chat has no message with a keyboard
ChatIdle ==
    /\ fsm = IdleFsm
    /\ live = <<>>
    /\ saved = <<>>
    /\ booked = <<>>
    /\ last = NoUpdate
    /\ completed = NoCompletion

\* no photo handler is running
PhotoTasksIdle == photoTasks = [h \in PhotoTaskIds |-> IdlePhotoTask]

\* main() ran ensure_schema on a new database
SchemaReady == schema = BootstrappedDb /\ schemaOp = NoSchemaOp

\* init_db() made the orders table and no thread is in create_order
OrdersIdle ==
    /\ sqlite = [writer |-> 0, orders |-> <<>>, seq |-> 0]
    /\ orderCalls = [t \in ThreadIds |-> IdleCall]

\* mark_booking_dispatched was not called and the timeout checker sleeps
DispatchIdle ==
    /\ marks = [b \in BookingIds |-> <<>>]
    /\ sweepLoop = SleepingLoop
    /\ notices = NoNotices

\* no call of the notifier helpers is in progress
ServiceIdle ==
    /\ retry = NoRetry
    /\ send = NoSend
    /\ error_cache = <<>>
    /\ errorReports = NoReports
    /\ form = NoForm
    /\ confirmTasks = [t \in PressIds |-> IdlePress]
    /\ listingStatus = [l \in ListingIds |-> "active"]
    /\ bookingFlow = NoFlow
    /\ adminListings = [l \in 1..Len(MyListingRows) |-> "active"]
    /\ mylTasks = [c \in ADMINS |-> IdleMyl]
    /\ promptStatus = [b \in 1..Len(PromptRows) |-> "pending_partner"]
    /\ promptTask = IdlePrompt

OtherIdle == PhotoTasksIdle /\ SchemaReady /\ OrdersIdle /\ DispatchIdle /\ ServiceIdle

Init == BookingInit /\ ChatIdle /\ OtherIdle /\ users = {}

\* wall clock of the database server
Tick ==
    /\ now + ClockStep <= MaxNow
    /\ now' = now + ClockStep
    /\ UNCHANGED <<bookings, confirm, cb, sw, ownerSends, prompts, userMsgs, adminMsgs, swept>>
    /\ UNCHANGED <<dbFailed, chatVars, otherVars>>

\* ------------------------------------------------- confirm_booking handler
\* confirm_booking up to create_booking: the INSERT of the row; ids are
\* handed out in order
ConfirmCreate(b, l) ==
    /\ confirm[b].pc = "idle"
    /\ \A c \in BookingIds : c < b => confirm[c].pc # "idle"
    /\ bookings' = [bookings EXCEPT ![b] = create_booking(l, now)]
    /\ confirm' = [confirm EXCEPT ![b].pc = "dispatch"]
    /\ UNCHANGED <<now, cb, sw, ownerSends, prompts, userMsgs, adminMsgs, swept>>
    /\ UNCHANGED <<dbFailed, chatVars, otherVars>>

\* variant: the monitor copy goes to every admin, the owner included
dispatch_booking_to_admins_all(msgs, b) ==
    [msgs EXCEPT ![b]["monitor"] = [a \in ADMINS |-> @[a] + 1]]

\* dispatch_booking_to_admins: the monitor copy to every admin but the
\* owner, sent by confirm_booking once the dispatch to the owner returned
dispatch_booking_to_admins(msgs, b) ==
    LET owner_id == get_owner_id(bookings[b]) IN
    [msgs EXCEPT ![b]["monitor"] =
        [a \in ADMINS |-> IF owner_id # 0 /\ a = owner_id THEN @[a] ELSE @[a] + 1]]

\* confirm_booking: the reply to the user
confirm_reply(success) == IF success THEN "sent_wait" ELSE "saved_unreachable"

\* dispatch_booking_to_owner: get_booking, owner check, safe_send_html of
\* the prompt; the transport either returns a message id or fails.  Without
\* an owner the dispatch returns False and confirm_booking goes on
DispatchSend(b) ==
    /\ confirm[b].pc = "dispatch"
    /\ LET owner_id == get_owner_id(bookings[b]) IN
       IF ~HasOwner(owner_id)
       THEN /\ confirm' = [confirm EXCEPT ![b].pc = "done", ![b].success = FALSE,
                                          ![b].reply = confirm_reply(FALSE)]
            /\ adminMsgs' = dispatch_booking_to_admins(adminMsgs, b)
            /\ UNCHANGED <<ownerSends, prompts>>
       ELSE \E message_id \in MsgIds \cup {NULL} :
              /\ confirm' = [confirm EXCEPT ![b].pc = IF SendSucceeded(message_id)
                                                      THEN "mark" ELSE "escalate",
                                            ![b].message_id = message_id]
              /\ ownerSends' = [ownerSends EXCEPT ![b] = @ + 1]
              /\ prompts' = [prompts EXCEPT ![b] = IF message_id # NULL THEN @ + 1 ELSE @]
              /\ UNCHANGED adminMsgs
    /\ UNCHANGED <<now, bookings, cb, sw, userMsgs, swept>>
    /\ UNCHANGED <<dbFailed, chatVars, otherVars>>

\* dispatch_booking_to_owner: mark_booking_dispatched and return True
DispatchMark(b) ==
    /\ confirm[b].pc = "mark"
    /\ bookings' = [bookings EXCEPT ![b] =
                      IF mark_dispatched_where(@)
                      THEN mark_dispatched_set(@, confirm[b].message_id, now) ELSE @]
    /\ confirm' = [confirm EXCEPT ![b].pc = "done", ![b].success = TRUE,
                                  ![b].message_id = NULL, ![b].reply = confirm_reply(TRUE)]
    /\ adminMsgs' = dispatch_booking_to_admins(adminMsgs, b)
    /\ UNCHANGED <<now, cb, sw, ownerSends, prompts, userMsgs, swept>>
    /\ UNCHANGED <<dbFailed, chatVars, otherVars>>

\* dispatch_booking_to_owner: owner unreachable, notice to every admin,
\* return False
DispatchEscalate(b) ==
    /\ confirm[b].pc = "escalate"
    /\ adminMsgs' = dispatch_booking_to_admins(
                      [adminMsgs EXCEPT ![b]["unreachable"] = [a \in ADMINS |-> @[a] + 1]], b)
    /\ confirm' = [confirm EXCEPT ![b].pc = "done", ![b].success = FALSE,
                                  ![b].reply = confirm_reply(FALSE)]
    /\ UNCHANGED <<now, bookings, cb, sw, ownerSends, prompts, userMsgs, swept>>
    /\ UNCHANGED <<dbFailed, chatVars, otherVars>>

\* --------------------------------------- accept_booking / reject_booking
\* A button of the owner prompt of booking b is pressed by chat c:
\* find_booking_by_short_id, the owner-only check and the pre-read of the
\* status.  Handler instances are numbered in the order the updates arrive
CallbackStart(p, kind, b, c) ==
    /\ cb[p].pc = "idle"
    /\ \A q \in CbIds : q < p => cb[q].pc # "idle"
    /\ prompts[b] > 0
    /\ Exists(b)
    /\ LET owner_id == get_owner_id(bookings[b]) IN
       cb' = [cb EXCEPT ![p] =
                IF ~IsOwnerCaller(c, owner_id) THEN DoneCb(b, c, kind, "unauthorized")
                ELSE IF ~StillOpen(bookings[b].status) THEN DoneCb(b, c, kind, "already_finalized")
                ELSE [pc |-> "update", kind |-> kind, booking |-> b, from_user |-> c,
                      owner_id |-> owner_id, result |-> "none"]]
    /\ UNCHANGED <<now, bookings, confirm, sw, ownerSends, prompts, userMsgs, adminMsgs, swept>>
    /\ UNCHANGED <<dbFailed, chatVars, otherVars>>

\* accept_booking_atomic / reject_booking_atomic: the guarded UPDATE and
\* the handler's answer when no row was updated
CallbackUpdate(p) ==
    /\ cb[p].pc = "update"
    /\ LET b == cb[p].booking IN
       IF decision_where(bookings[b], cb[p].owner_id)
       THEN /\ bookings' = [bookings EXCEPT ![b].status = Outcome(cb[p].kind)]
            /\ cb' = [cb EXCEPT ![p].pc = "notify", ![p].result = "applied"]
       ELSE /\ cb' = [cb EXCEPT ![p] = DoneCb(b, cb[p].from_user, cb[p].kind, "already_finalized")]
            /\ UNCHANGED bookings
    /\ UNCHANGED <<now, confirm, sw, ownerSends, prompts, userMsgs, adminMsgs, swept>>
    /\ UNCHANGED <<dbFailed, chatVars, otherVars>>

\* accept_booking / reject_booking after a successful UPDATE: the notice
\* to the booking's user and to every admin but the owner
CallbackNotify(p) ==
    /\ cb[p].pc = "notify"
    /\ LET b == cb[p].booking
           k == Outcome(cb[p].kind)
       IN /\ userMsgs' = [userMsgs EXCEPT ![b][k] = @ + 1]
          /\ adminMsgs' = [adminMsgs EXCEPT ![b][k] =
                             [a \in ADMINS |-> IF cb[p].owner_id # 0 /\ a = cb[p].owner_id
                                               THEN @[a] ELSE @[a] + 1]]
    /\ cb' = [cb EXCEPT ![p] = DoneCb(cb[p].booking, cb[p].from_user, cb[p].kind, "applied")]
    /\ UNCHANGED <<now, bookings, confirm, sw, ownerSends, prompts, swept>>
    /\ UNCHANGED <<dbFailed, chatVars, otherVars>>

\* ------------------------------------------------- timeout_checker_loop
\* fetch_expired_bookings, start of the statement: NOW() is fixed and the
\* rows that satisfy the WHERE clause in the statement's snapshot are found
SweepBegin(s) ==
    /\ sw[s].pc = "sleep"
    /\ sw' = [sw EXCEPT ![s] = [pc |-> "scan", t |-> now, got |-> {},
                                todo |-> {b \in BookingIds : expired_where(bookings[b], now)}]]
    /\ UNCHANGED <<now, bookings, confirm, cb, ownerSends, prompts, userMsgs, adminMsgs, swept>>
    /\ UNCHANGED <<dbFailed, chatVars, otherVars>>

\* fetch_expired_bookings, one row of the UPDATE under READ COMMITTED: the
\* row is locked, the WHERE clause is evaluated again on its latest
\* version, and the row is updated and returned only when it still holds
SweepRow(s, b) ==
    /\ sw[s].pc = "scan"
    /\ b \in sw[s].todo
    /\ IF expired_recheck(bookings[b], sw[s].t)
       THEN /\ bookings' = [bookings EXCEPT ![b].status = "timeout"]
            /\ sw' = [sw EXCEPT ![s].todo = @ \ {b}, ![s].got = @ \cup {b}]
            /\ swept' = [swept EXCEPT ![b] = @ + 1]
       ELSE /\ sw' = [sw EXCEPT ![s].todo = @ \ {b}]
            /\ UNCHANGED <<bookings, swept>>
    /\ UNCHANGED <<now, confirm, cb, ownerSends, prompts, userMsgs, adminMsgs>>
    /\ UNCHANGED <<dbFailed, chatVars, otherVars>>

\* fetch_expired_bookings returns its rows to timeout_checker_loop
SweepReturn(s) ==
    /\ sw[s].pc = "scan"
    /\ sw[s].todo = {}
    /\ sw' = [sw EXCEPT ![s].pc = IF sw[s].got = {} THEN "sleep" ELSE "notify",
                        ![s].t = NULL]
    /\ UNCHANGED <<now, bookings, confirm, cb, ownerSends, prompts, userMsgs, adminMsgs, swept>>
    /\ UNCHANGED <<dbFailed, chatVars, otherVars>>

\* timeout_checker_loop, one iteration of `for booking in expired`: the
\* notice to the user and to every admin
SweepNotify(s, b) ==
    /\ sw[s].pc = "notify"
    /\ b \in sw[s].got
    /\ userMsgs' = [userMsgs EXCEPT ![b]["timeout"] = @ + 1]
    /\ adminMsgs' = [adminMsgs EXCEPT ![b]["timeout"] = [a \in ADMINS |-> @[a] + 1]]
    /\ sw' = [sw EXCEPT ![s] = IF sw[s].got = {b} THEN IdleSw
                               ELSE [@ EXCEPT !.got = @ \ {b}]]
    /\ UNCHANGED <<now, bookings, confirm, cb, ownerSends, prompts, swept>>
    /\ UNCHANGED <<dbFailed, chatVars, otherVars>>

Next ==
    \/ Tick
    \/ \E b \in BookingIds, l \in ListingIds : ConfirmCreate(b, l)
    \/ \E b \in BookingIds : DispatchSend(b)
    \/ \E b \in BookingIds : DispatchMark(b)
    \/ \E b \in BookingIds : DispatchEscalate(b)
    \/ \E p \in CbIds, kind \in {"accept", "reject"}, b \in BookingIds, c \in Callers :
          CallbackStart(p, kind, b, c)
    \/ \E p \in CbIds : CallbackUpdate(p)
    \/ \E p \in CbIds : CallbackNotify(p)
    \/ \E s \in SweeperIds : SweepBegin(s)
    \/ \E s \in SweeperIds, b \in BookingIds : SweepRow(s, b)
    \/ \E s \in SweeperIds : SweepReturn(s)
    \/ \E s \in SweeperIds, b \in BookingIds : SweepNotify(s, b)

Spec == Init /\ [][Next]_vars

\* one sweeper: the steps of its loop
timeout_checker_loop(s) ==
    \/ SweepBegin(s)
    \/ \E b \in BookingIds : SweepRow(s, b)
    \/ SweepReturn(s)
    \/ \E b \in BookingIds : SweepNotify(s, b)

\* timeout_checker_loop is a `while True` loop that sleeps and sweeps, so
\* every step of a sweeper is eventually taken; time always passes
Fairness ==
    /\ WF_vars(Tick)
    /\ \A s \in SweeperIds : WF_vars(timeout_checker_loop(s))

\* the dispatcher and the sweepers alone: a booking whose prompt was never
\* delivered has no button, so no owner callback can be pressed for it
DispatchNext ==
    \/ Tick
    \/ \E b \in BookingIds, l \in ListingIds : ConfirmCreate(b, l)
    \/ \E b \in BookingIds : DispatchSend(b)
    \/ \E b \in BookingIds : DispatchMark(b)
    \/ \E b \in BookingIds : DispatchEscalate(b)
    \/ \E s \in SweeperIds : SweepBegin(s)
    \/ \E s \in SweeperIds, b \in BookingIds : SweepRow(s, b)
    \/ \E s \in SweeperIds : SweepReturn(s)
    \/ \E s \in SweeperIds, b \in BookingIds : SweepNotify(s, b)

LiveSpec == Init /\ [][DispatchNext]_vars /\ Fairness

\* ------------------------------------------------- database unavailable
\* what a store call returns when its statement updated or found nothing
NormalNegative(fn) == IF fn = "fetch_expired_bookings" THEN <<>> ELSE FALSE

\* accept_booking_atomic / reject_booking_atomic: `except Exception`
\* logs the error and returns False
decision_atomic_on_error == FALSE

\* fetch_expired_bookings: `except Exception` logs the error and returns []
fetch_expired_on_error == <<>>

\* accept_booking / reject_booking when the UPDATE raises (connection lost,
\* command timeout): the store returns False and the handler gives the
\* answer it gives when no row was updated
CallbackUpdateFails(p) ==
    /\ cb[p].pc = "update"
    /\ dbFailed' = dbFailed \cup
          {[fn |-> IF cb[p].kind = "accept" THEN "accept_booking_atomic"
                   ELSE "reject_booking_atomic",
            returned |-> decision_atomic_on_error,
            answer |-> IF decision_atomic_on_error THEN "applied" ELSE "already_finalized"]}
    /\ cb' = [cb EXCEPT ![p] =
                IF decision_atomic_on_error
                THEN [@ EXCEPT !.pc = "notify", !.result = "applied"]
                ELSE DoneCb(cb[p].booking, cb[p].from_user, cb[p].kind, "already_finalized")]
    /\ UNCHANGED <<now, bookings, confirm, sw, ownerSends, prompts, userMsgs, adminMsgs, swept>>
    /\ UNCHANGED <<chatVars, otherVars>>

\* timeout_checker_loop when fetch_expired_bookings raises inside the
\* store: the loop gets [] and has nothing to notify
SweepFails(s) ==
    /\ sw[s].pc = "sleep"
    /\ dbFailed' = dbFailed \cup
          {[fn |-> "fetch_expired_bookings", returned |-> fetch_expired_on_error,
            answer |-> IF fetch_expired_on_error = <<>> THEN "no_expired" ELSE "expired"]}
    /\ sw' = [sw EXCEPT ![s] = IdleSw]
    /\ UNCHANGED <<now, bookings, confirm, cb, ownerSends, prompts, userMsgs, adminMsgs, swept>>
    /\ UNCHANGED <<chatVars, otherVars>>

OutageNext ==
    \/ Next
    \/ \E p \in CbIds : CallbackUpdateFails(p)
    \/ \E s \in SweeperIds : SweepFails(s)

\* the booking lifecycle with a database that may fail any store call of
\* the owner callbacks and of the sweeper
OutageSpec == Init /\ [][OutageNext]_vars

\* ---------------------------------------------------------- registration
\* the row of the users table with this chat id, if there is one
user_rows(telegram_id) == {r \in users : r.telegram_id = telegram_id}

\* variant: a plain INSERT that ignores the row already there
upsert_user_insert_only(rows, telegram_id, phone, first_name, last_name) ==
    rows \cup {[telegram_id |-> telegram_id, phone |-> phone,
                first_name |-> first_name, last_name |-> last_name]}

\* upsert_user: INSERT ... ON CONFLICT (telegram_id) DO UPDATE SET phone,
\* first_name, last_name
upsert_user(rows, telegram_id, phone, first_name, last_name) ==
    {r \in rows : r.telegram_id # telegram_id}
      \cup {[telegram_id |-> telegram_id, phone |-> phone,
              first_name |-> first_name, last_name |-> last_name]}

\* start_registration
start_registration == [state |-> "Registration:contact", data |-> EmptyData]

\* cmd_start: get_user_by_telegram_id returns None when there is no row
\* and when the query fails; without a user the registration starts, with
\* one the menu is shown and the conversation is left as it is
cmd_start(u) ==
    /\ Handler(fsm.state, u) = "cmd_start"
    /\ \E query_ok \in BOOLEAN :
          LET user == query_ok /\ user_rows(ChatId) # {} IN
          fsm' = IF ~user THEN start_registration ELSE fsm
    /\ last' = Seen(u)
    /\ UNCHANGED <<live, users, saved, booked, completed, bookingVars, otherVars>>

\* variant: the contact is taken without comparing contact.user_id with
\* the sender
process_contact_any_sender(u) ==
    /\ Handler(fsm.state, u) = "process_contact"
    /\ fsm' = [state |-> "Registration:first_name",
               data |-> [fsm.data EXCEPT !["phone"] = V(u.value)]]
    /\ last' = Seen(u)
    /\ UNCHANGED <<live, users, saved, booked, completed, bookingVars, otherVars>>

\* process_contact: a contact of somebody else is refused, the sender's
\* own phone number is kept as Telegram sent it
process_contact(u) ==
    /\ Handler(fsm.state, u) = "process_contact"
    /\ fsm' = IF ~u.own THEN fsm
              ELSE [state |-> "Registration:first_name",
                    data |-> [fsm.data EXCEPT !["phone"] = V(u.value)]]
    /\ last' = Seen(u)
    /\ UNCHANGED <<live, users, saved, booked, completed, bookingVars, otherVars>>

\* process_contact_fallback: anything but a contact is answered with the
\* request to press the button
process_contact_fallback(u) ==
    /\ Handler(fsm.state, u) = "process_contact_fallback"
    /\ last' = Seen(u)
    /\ UNCHANGED <<fsm, live, users, saved, booked, completed, bookingVars, otherVars>>

\* process_first_name
process_first_name(u) ==
    /\ Handler(fsm.state, u) = "process_first_name"
    /\ LET name == strip(text_of(u)) IN
       fsm' = IF u.type # "text" \/ name = <<>> \/ Len(name) < 2 THEN fsm
              ELSE [state |-> "Registration:last_name",
                    data |-> [fsm.data EXCEPT !["first_name"] = V(name)]]
    /\ last' = Seen(u)
    /\ UNCHANGED <<live, users, saved, booked, completed, bookingVars, otherVars>>

\* process_last_name: the user row is written with the phone and the first
\* name of the context; the conversation is cleared whether upsert_user
\* succeeded or not.  The INSERT fails when the database is unavailable
\* and when a NOT NULL column would get None
process_last_name(u) ==
    /\ Handler(fsm.state, u) = "process_last_name"
    /\ completed.n < MaxRegistrations
    /\ LET last_name == strip(text_of(u))
           phone == Get(fsm.data, "phone", None)
           first_name == Get(fsm.data, "first_name", None)
       IN IF u.type # "text" \/ last_name = <<>> \/ Len(last_name) < 2
          THEN UNCHANGED <<fsm, users, completed>>
          ELSE \E db_ok \in BOOLEAN :
                 /\ fsm' = IdleFsm
                 /\ IF db_ok /\ phone # None /\ first_name # None
                    THEN /\ users' = upsert_user(users, ChatId, phone.v, first_name.v, last_name)
                         /\ completed' = [n |-> completed.n + 1, phone |-> phone.v,
                                          first_name |-> first_name.v, last_name |-> last_name]
                    ELSE UNCHANGED <<users, completed>>
    /\ last' = Seen(u)
    /\ UNCHANGED <<live, saved, booked, bookingVars, otherVars>>

\* what the chat sends during a registration
RegTexts == {T_start, T_cancel, T_name, T_letter}
RegUpdates ==
    {TextMsg(t) : t \in RegTexts}
      \cup {ContactMsg(phone, own) : phone \in {ContactPhoneBare, ContactPhonePlus},
                                    own \in BOOLEAN}
      \cup {PhotoMsg}

RegNext ==
    \/ \E u \in RegUpdates : cmd_start(u)
    \/ \E u \in RegUpdates : process_contact(u)
    \/ \E u \in RegUpdates : process_contact_fallback(u)
    \/ \E u \in RegUpdates : process_first_name(u)
    \/ \E u \in RegUpdates : process_last_name(u)

\* one chat that registers, and registers again when /start does not find
\* its row
RegSpec == Init /\ [][RegNext]_vars

\* ------------------------------------------------- keyboards of the chat
\* categories and hotel subtypes whose buttons the chat presses
CategoryCodes == {"hotel", "place", "guide"}
SubtypeCodes == {"shale"}
LOCATION_REQUIRED == {"hotel", "place"}
\* variant: no category requires photos
PHOTOS_REQUIRED_none == {}
PHOTOS_REQUIRED == {"hotel", "place"}
PRICE_CATEGORIES == {"hotel", "taxi"}
MAX_PHOTOS == 5

\* listings the browse flow finds: the guide listing of OwnerChat, without
\* photos and without coordinates
catalogue ==
    <<[id |-> "1", region |-> "zomin", category |-> "guide", subtype |-> None,
       latitude |-> None, photos |-> <<>>, is_active |-> TRUE]>>

\* callback_data of the buttons of each inline keyboard, split at the colons
Buttons(kb) ==
    CASE kb = "wiz:kb_categories" ->
           {<<"wiz", "cat", c>> : c \in CategoryCodes} \cup {<<"wiz", "cancel">>}
      [] kb = "wiz:kb_subtypes" ->
           {<<"wiz", "sub", s>> : s \in SubtypeCodes} \cup {<<"wiz", "cancel">>}
      [] kb = "wiz:kb_regions" -> {<<"wiz", "region", "zomin">>, <<"wiz", "cancel">>}
      [] kb = "wiz:kb_confirm" -> {<<"wiz", "save">>, <<"wiz", "cancel">>}
      [] kb = "uf:kb_regions" -> {<<"uf", "region", "zomin">>}
      [] kb = "uf:kb_categories" ->
           {<<"uf", "cat", c>> : c \in CategoryCodes} \cup {<<"uf", "back", "region">>}
      [] kb = "uf:kb_subtypes" ->
           {<<"uf", "sub", s>> : s \in SubtypeCodes} \cup {<<"uf", "back", "category">>}
      [] kb = "uf:no_listings" -> {<<"uf", "back", "category">>}
      [] kb = "uf:kb_listing_card" -> {<<"uf", "pick", "1">>, <<"uf", "back", "category">>}
      [] kb = "uf:kb_detail" -> {<<"uf", "book", "1">>, <<"uf", "back", "list">>}
      [] kb = "uf:kb_booking_confirm" -> {<<"uf", "bconfirm", "1">>, <<"uf", "bcancel">>}

\* a message with the keyboard kb becomes the newest of the keyboards the
\* chat still reaches
newest(keyboards, kb) ==
    LET others == SelectSeq(keyboards, LAMBDA k : k # kb)
        all == Append(others, kb)
    IN IF Len(all) > MaxKeyboards THEN Tail(all) ELSE all

\* message.answer(..., reply_markup=kb): one more message carries kb
sent(kb) == newest(live, kb)
\* callback.message.edit_text(..., reply_markup=kb) and delete followed by a
\* new message: the pressed message loses its keyboard, kbs holds the
\* keyboard that replaces it, if any
edited(u, kbs) ==
    LET others == SelectSeq(live, LAMBDA k : k # u.kb) IN
    IF kbs = {} THEN others ELSE newest(others, CHOOSE kb \in kbs : TRUE)

\* state.update_data(key=value, ...)
update_data(data, kvs) == [k \in Keys |-> IF k \in DOMAIN kvs THEN kvs[k] ELSE data[k]]

\* `x in S` for a value of the context
In(x, S) == x.t = "val" /\ x.v \in S

\* -------------------------------------------------- add-listing wizard
\* cancel_wizard
cancel_wizard == IdleFsm

\* cmd_add
cmd_add(u) ==
    /\ Handler(fsm.state, u) = "cmd_add"
    /\ fsm' = [state |-> "AddListing:category",
               data |-> update_data(EmptyData, [admin_id |-> V(ChatId), photos |-> V(<<>>)])]
    /\ live' = sent("wiz:kb_categories")
    /\ last' = Seen(u)
    /\ UNCHANGED <<users, saved, booked, completed, bookingVars, otherVars>>

\* step_category
step_category(u) ==
    /\ Handler(fsm.state, u) = "step_category"
    /\ LET category == u.value[3] IN
       /\ fsm' = [state |-> IF category = "hotel" THEN "AddListing:hotel_type"
                            ELSE "AddListing:title",
                  data |-> update_data(fsm.data, [category |-> V(category)])]
       /\ live' = edited(u, IF category = "hotel" THEN {"wiz:kb_subtypes"} ELSE {})
    /\ last' = Seen(u)
    /\ UNCHANGED <<users, saved, booked, completed, bookingVars, otherVars>>

\* step_title
step_title(u) ==
    /\ Handler(fsm.state, u) = "step_title"
    /\ LET text == strip(text_of(u)) IN
       fsm' = IF lower(text) = T_cancel THEN cancel_wizard
              ELSE IF Len(text) < 3 THEN fsm
              ELSE [state |-> "AddListing:description",
                    data |-> update_data(fsm.data, [title |-> V(text)])]
    /\ last' = Seen(u)
    /\ UNCHANGED <<live, users, saved, booked, completed, bookingVars, otherVars>>

\* step_description
step_description(u) ==
    /\ Handler(fsm.state, u) = "step_description"
    /\ LET text == strip(text_of(u))
           desc == IF lower(text) = T_skip THEN None ELSE V(text)
       IN IF lower(text) = T_cancel
          THEN fsm' = cancel_wizard /\ UNCHANGED live
          ELSE /\ fsm' = [state |-> "AddListing:region",
                          data |-> update_data(fsm.data, [description |-> desc])]
               /\ live' = sent("wiz:kb_regions")
    /\ last' = Seen(u)
    /\ UNCHANGED <<users, saved, booked, completed, bookingVars, otherVars>>

\* step_region
step_region(u) ==
    /\ Handler(fsm.state, u) = "step_region"
    /\ LET data == update_data(fsm.data, [region |-> V(u.value[3])])
           category == Get(data, "category", V(""))
       IN fsm' = [state |-> IF In(category, PRICE_CATEGORIES) THEN "AddListing:price"
                            ELSE "AddListing:phone",
                  data |-> data]
    /\ live' = edited(u, {})
    /\ last' = Seen(u)
    /\ UNCHANGED <<users, saved, booked, completed, bookingVars, otherVars>>

\* step_hotel_type
step_hotel_type(u) ==
    /\ Handler(fsm.state, u) = "step_hotel_type"
    /\ fsm' = [state |-> "AddListing:title",
               data |-> update_data(fsm.data, [subtype |-> V(u.value[3])])]
    /\ live' = edited(u, {})
    /\ last' = Seen(u)
    /\ UNCHANGED <<users, saved, booked, completed, bookingVars, otherVars>>

\* step_price: int() raises ValueError on anything but a number
step_price(u) ==
    /\ Handler(fsm.state, u) = "step_price"
    /\ LET text == strip(text_of(u))
           number == SelectSeq(text, LAMBDA c : c \notin {" ", ","})
           price == IF lower(text) = T_skip THEN None ELSE V(int(number))
       IN fsm' = IF lower(text) = T_cancel THEN cancel_wizard
                 ELSE IF lower(text) # T_skip /\ ~isdigit(number) THEN fsm
                 ELSE [state |-> "AddListing:phone",
                       data |-> update_data(fsm.data, [price_from |-> price])]
    /\ last' = Seen(u)
    /\ UNCHANGED <<live, users, saved, booked, completed, bookingVars, otherVars>>

\* step_phone
step_phone(u) ==
    /\ Handler(fsm.state, u) = "step_phone"
    /\ LET text == strip(text_of(u))
           phone == IF lower(text) = T_skip THEN None ELSE V(text)
       IN fsm' = IF lower(text) = T_cancel THEN cancel_wizard
                 ELSE [state |-> "AddListing:location",
                       data |-> update_data(fsm.data, [phone |-> phone])]
    /\ last' = Seen(u)
    /\ UNCHANGED <<live, users, saved, booked, completed, bookingVars, otherVars>>

\* move_to_photos
move_to_photos(data) == [state |-> "AddListing:photos", data |-> data]

\* step_location_received
step_location_received(u) ==
    /\ Handler(fsm.state, u) = "step_location_received"
    /\ fsm' = move_to_photos(update_data(fsm.data,
                [latitude |-> V(u.value), longitude |-> V(u.value)]))
    /\ last' = Seen(u)
    /\ UNCHANGED <<live, users, saved, booked, completed, bookingVars, otherVars>>

\* step_location_text
step_location_text(u) ==
    /\ Handler(fsm.state, u) = "step_location_text"
    /\ LET text == lower(strip(text_of(u)))
           loc_required == In(Get(fsm.data, "category", V("")), LOCATION_REQUIRED)
       IN fsm' = IF text = T_cancel THEN cancel_wizard
                 ELSE IF text = T_skip /\ ~loc_required
                 THEN move_to_photos(update_data(fsm.data,
                        [latitude |-> None, longitude |-> None]))
                 ELSE fsm
    /\ last' = Seen(u)
    /\ UNCHANGED <<live, users, saved, booked, completed, bookingVars, otherVars>>

\* step_photos_received
step_photos_received(u) ==
    /\ Handler(fsm.state, u) = "step_photos_received"
    /\ LET photos == Get(fsm.data, "photos", V(<<>>)) IN
       fsm' = IF Len(photos.v) >= MAX_PHOTOS THEN fsm
              ELSE [fsm EXCEPT !.data = update_data(fsm.data,
                                  [photos |-> V(Append(photos.v, "file_id"))])]
    /\ last' = Seen(u)
    /\ UNCHANGED <<live, users, saved, booked, completed, bookingVars, otherVars>>

\* step_photos_text, with move_to_confirm
step_photos_text(u) ==
    /\ Handler(fsm.state, u) = "step_photos_text"
    /\ LET text == lower(strip(text_of(u)))
           photos == Get(fsm.data, "photos", V(<<>>))
           photos_required == In(Get(fsm.data, "category", V("")), PHOTOS_REQUIRED)
           move_to_confirm ==
               \/ text = T_done /\ ~(photos_required /\ Len(photos.v) < 1)
               \/ text = T_skip /\ ~photos_required
       IN IF text = T_cancel THEN fsm' = cancel_wizard /\ UNCHANGED live
          ELSE IF move_to_confirm
          THEN /\ fsm' = [fsm EXCEPT !.state = "AddListing:confirm"]
               /\ live' = sent("wiz:kb_confirm")
          ELSE UNCHANGED <<fsm, live>>
    /\ last' = Seen(u)
    /\ UNCHANGED <<users, saved, booked, completed, bookingVars, otherVars>>

\* create_listing: the row it inserts, or None when the statement fails.
\* `.lower()` and `int()` raise on None and the NOT NULL columns category,
\* title and telegram_admin_id reject it; every exception is caught
create_listing(data) ==
    IF \/ data.region = None \/ data.category = None \/ data.title = None
       \/ data.telegram_admin_id = None
    THEN None
    ELSE V([region |-> data.region.v, category |-> data.category.v,
            subtype |-> data.subtype, title |-> data.title.v,
            telegram_admin_id |-> data.telegram_admin_id.v,
            latitude |-> data.latitude, longitude |-> data.longitude,
            photos |-> data.photos.v])

\* step_save
step_save(u) ==
    /\ Handler(fsm.state, u) = "step_save"
    /\ \E db_ok \in BOOLEAN :
         LET data == fsm.data
             listing == create_listing(
                 [region |-> Get(data, "region", V("zomin")),
                  category |-> Get(data, "category", None),
                  subtype |-> Get(data, "subtype", None),
                  title |-> Get(data, "title", None),
                  telegram_admin_id |-> Get(data, "admin_id", None),
                  latitude |-> Get(data, "latitude", None),
                  longitude |-> Get(data, "longitude", None),
                  photos |-> Get(data, "photos", V(<<>>))])
         IN saved' = IF db_ok /\ listing # None THEN Append(saved, listing.v) ELSE saved
    /\ fsm' = IdleFsm
    /\ live' = edited(u, {})
    /\ last' = Seen(u)
    /\ UNCHANGED <<users, booked, completed, bookingVars, otherVars>>

\* cancel_callback
cancel_callback(u) ==
    /\ Handler(fsm.state, u) = "cancel_callback"
    /\ fsm' = IdleFsm
    /\ live' = edited(u, {})
    /\ last' = Seen(u)
    /\ UNCHANGED <<users, saved, booked, completed, bookingVars, otherVars>>

\* cmd_cancel
cmd_cancel(u) ==
    /\ Handler(fsm.state, u) = "cmd_cancel"
    /\ fsm' = cancel_wizard
    /\ last' = Seen(u)
    /\ UNCHANGED <<live, users, saved, booked, completed, bookingVars, otherVars>>

\* ------------------------------------------------------- browse flow
\* fetch_listings: a filter applies when its argument is truthy
fetch_listings(region, category, subtype) ==
    LET matches(row) ==
            /\ row.is_active
            /\ region \in {None, V("")} \/ row.region = region.v
            /\ category \in {None, V("")} \/ row.category = category.v
            /\ subtype \in {None, V("")} \/ row.subtype = subtype
        rows == SelectSeq(catalogue, matches)
    IN [i \in 1..Len(rows) |-> rows[i].id]

\* get_listing
get_listing(listing_id) ==
    IF \E i \in 1..Len(catalogue) : catalogue[i].id = listing_id THEN V(listing_id) ELSE None

\* next((lid for lid in listing_ids if lid.startswith(lid_short)), None)
find_full_id(listing_ids, lid_short) ==
    LET found == SelectSeq(listing_ids, LAMBDA lid : lid = lid_short) IN
    IF found = <<>> THEN None ELSE V(found[1])

\* cmd_browse
cmd_browse(u) ==
    /\ Handler(fsm.state, u) = "cmd_browse"
    /\ fsm' = [state |-> "BrowseState:region", data |-> EmptyData]
    /\ live' = sent("uf:kb_regions")
    /\ last' = Seen(u)
    /\ UNCHANGED <<users, saved, booked, completed, bookingVars, otherVars>>

\* handle_unknown_text
handle_unknown_text(u) ==
    /\ Handler(fsm.state, u) = "handle_unknown_text"
    /\ last' = Seen(u)
    /\ UNCHANGED <<fsm, live, users, saved, booked, completed, bookingVars, otherVars>>

\* select_region
select_region(u) ==
    /\ Handler(fsm.state, u) = "select_region"
    /\ fsm' = [state |-> "BrowseState:category",
               data |-> update_data(fsm.data, [region |-> V(u.value[3])])]
    /\ live' = edited(u, {"uf:kb_categories"})
    /\ last' = Seen(u)
    /\ UNCHANGED <<users, saved, booked, completed, bookingVars, otherVars>>

\* show_listings followed by send_listing_card: the context after it and
\* the keyboard the pressed message gets
show_listings(data) ==
    LET found == fetch_listings(Get(data, "region", V("zomin")),
                                Get(data, "category", None), Get(data, "subtype", None))
    IN IF found = <<>>
       THEN [data |-> data, kb |-> "uf:no_listings"]
       ELSE [data |-> update_data(data, [listings |-> V(found), current_index |-> V(0)]),
             kb |-> "uf:kb_listing_card"]

\* select_category
select_category(u) ==
    /\ Handler(fsm.state, u) = "select_category"
    /\ LET category == u.value[3]
           data == update_data(fsm.data, [category |-> V(category)])
       IN IF category = "hotel"
          THEN /\ fsm' = [state |-> "BrowseState:subtype", data |-> data]
               /\ live' = edited(u, {"uf:kb_subtypes"})
          ELSE /\ fsm' = [state |-> "BrowseState:listing", data |-> show_listings(data).data]
               /\ live' = edited(u, {show_listings(data).kb})
    /\ last' = Seen(u)
    /\ UNCHANGED <<users, saved, booked, completed, bookingVars, otherVars>>

\* select_subtype
select_subtype(u) ==
    /\ Handler(fsm.state, u) = "select_subtype"
    /\ LET data == update_data(fsm.data, [subtype |-> V(u.value[3])]) IN
       /\ fsm' = [state |-> "BrowseState:listing", data |-> show_listings(data).data]
       /\ live' = edited(u, {show_listings(data).kb})
    /\ last' = Seen(u)
    /\ UNCHANGED <<users, saved, booked, completed, bookingVars, otherVars>>

\* pick_listing: iterating over `listings=None` raises, the handler ends
\* with nothing changed
pick_listing(u) ==
    /\ Handler(fsm.state, u) = "pick_listing"
    /\ LET listing_ids == Get(fsm.data, "listings", V(<<>>))
           full_id == IF listing_ids = None THEN None
                      ELSE find_full_id(listing_ids.v, u.value[3])
       IN IF full_id = None \/ get_listing(full_id.v) = None
          THEN UNCHANGED <<fsm, live>>
          ELSE /\ fsm' = [fsm EXCEPT !.data =
                            update_data(fsm.data, [selected_listing |-> full_id])]
               /\ live' = edited(u, {"uf:kb_detail"})
    /\ last' = Seen(u)
    /\ UNCHANGED <<users, saved, booked, completed, bookingVars, otherVars>>

\* back_to_region
back_to_region(u) ==
    /\ Handler(fsm.state, u) = "back_to_region"
    /\ fsm' = [fsm EXCEPT !.state = "BrowseState:region"]
    /\ live' = edited(u, {"uf:kb_regions"})
    /\ last' = Seen(u)
    /\ UNCHANGED <<users, saved, booked, completed, bookingVars, otherVars>>

\* back_to_category
back_to_category(u) ==
    /\ Handler(fsm.state, u) = "back_to_category"
    /\ fsm' = [state |-> "BrowseState:category",
               data |-> update_data(fsm.data,
                 [subtype |-> None, listings |-> None, current_index |-> V(0)])]
    /\ live' = edited(u, {"uf:kb_categories"})
    /\ last' = Seen(u)
    /\ UNCHANGED <<users, saved, booked, completed, bookingVars, otherVars>>

\* back_to_list
back_to_list(u) ==
    /\ Handler(fsm.state, u) = "back_to_list"
    /\ LET index == Get(fsm.data, "current_index", V(0))
           listing_ids == Get(fsm.data, "listings", V(<<>>))
       IN live' = IF /\ listing_ids \notin {None, V(<<>>)}
                     /\ index.v < Len(listing_ids.v)
                     /\ get_listing(listing_ids.v[index.v + 1]) # None
                  THEN edited(u, {"uf:kb_listing_card"})
                  ELSE live
    /\ last' = Seen(u)
    /\ UNCHANGED <<fsm, users, saved, booked, completed, bookingVars, otherVars>>

\* ------------------------------------------------------ booking form
\* start_booking
start_booking(u) ==
    /\ Handler(fsm.state, u) = "start_booking"
    /\ LET listing_ids == Get(fsm.data, "listings", V(<<>>))
           found == IF listing_ids = None THEN None
                    ELSE find_full_id(listing_ids.v, u.value[3])
           full_id == IF found = None THEN Get(fsm.data, "selected_listing", None)
                      ELSE found
       IN IF listing_ids = None \/ full_id = None \/ get_listing(full_id.v) = None
          THEN UNCHANGED <<fsm, live>>
          ELSE /\ fsm' = [state |-> "BookingForm:guest_count",
                          data |-> update_data(fsm.data, [booking_listing_id |-> full_id])]
               /\ live' = edited(u, {})
    /\ last' = Seen(u)
    /\ UNCHANGED <<users, saved, booked, completed, bookingVars, otherVars>>

\* get_user_by_telegram_id: the row, or None
get_user_by_telegram_id(telegram_id, query_ok) ==
    IF query_ok /\ user_rows(telegram_id) # {}
    THEN V(CHOOSE r \in user_rows(telegram_id) : TRUE) ELSE None

\* _ask_phone_step
ask_phone_step(data, user) ==
    LET user_phone == IF user = None THEN <<>> ELSE strip(user.v.phone) IN
    IF user_phone # <<>>
    THEN [state |-> "BookingForm:phone_choice",
          data |-> update_data(data, [registered_phone |-> V(user_phone)])]
    ELSE [state |-> "BookingForm:phone_manual", data |-> data]

\* booking_guest_count
booking_guest_count(u) ==
    /\ Handler(fsm.state, u) = "booking_guest_count"
    /\ LET text == strip(text_of(u)) IN
       IF ~isdigit(text) \/ ~(1 <= int(text) /\ int(text) <= 10)
       THEN UNCHANGED fsm
       ELSE \E query_ok \in BOOLEAN, again_ok \in BOOLEAN :
              LET guest_count == int(text)
                  user == get_user_by_telegram_id(ChatId, query_ok)
                  registered_name ==
                      strip(user.v.first_name \o <<" ">> \o user.v.last_name)
              IN fsm' =
                   IF user = None \/ user.v.first_name = <<>> THEN IdleFsm
                   ELSE IF guest_count = 1
                   THEN ask_phone_step(
                          update_data(fsm.data, [guest_count |-> V(1),
                                                 guest_names |-> V(<<registered_name>>)]),
                          get_user_by_telegram_id(ChatId, again_ok))
                   ELSE [state |-> "BookingForm:extra_guest_names",
                         data |-> update_data(fsm.data,
                                    [guest_count |-> V(guest_count),
                                     registered_name |-> V(registered_name)])]
    /\ last' = Seen(u)
    /\ UNCHANGED <<live, users, saved, booked, completed, bookingVars, otherVars>>

RECURSIVE splitlines(_)
\* str.splitlines()
splitlines(s) ==
    IF s = <<>> THEN <<>>
    ELSE IF \E i \in 1..Len(s) : s[i] = "\n"
    THEN LET i == CHOOSE i \in 1..Len(s) : s[i] = "\n" /\ \A j \in 1..(i - 1) : s[j] # "\n"
         IN <<SubSeq(s, 1, i - 1)>> \o splitlines(SubSeq(s, i + 1, Len(s)))
    ELSE <<s>>

\* booking_extra_names
booking_extra_names(u) ==
    /\ Handler(fsm.state, u) = "booking_extra_names"
    /\ \E query_ok \in BOOLEAN :
         LET raw == strip(text_of(u))
             guest_count == Get(fsm.data, "guest_count", V(2))
             registered_name == Get(fsm.data, "registered_name", V(<<>>))
             needed == guest_count.v - 1
             stripped == [i \in 1..Len(splitlines(raw)) |-> strip(splitlines(raw)[i])]
             lines == SelectSeq(stripped, LAMBDA ln : ln # <<>>)
             names == SubSeq(lines, 1, needed)
         IN fsm' =
              IF raw = <<>> \/ Len(lines) < needed THEN fsm
              ELSE IF \E i \in 1..Len(names) : Len(names[i]) < 3 \/ Len(names[i]) > 60
              THEN fsm
              ELSE ask_phone_step(
                     update_data(fsm.data,
                       [guest_names |-> V(<<registered_name.v>> \o names)]),
                     get_user_by_telegram_id(ChatId, query_ok))
    /\ last' = Seen(u)
    /\ UNCHANGED <<live, users, saved, booked, completed, bookingVars, otherVars>>

\* variant: any nine digits are taken for a local number
normalize_uz_phone_any_first(raw) ==
    LET digits == digits_of(raw) IN
    IF startswith(digits, <<"9", "9", "8">>) /\ Len(digits) = 12 THEN V(<<"+">> \o digits)
    ELSE IF Len(digits) = 9 THEN V(<<"+", "9", "9", "8">> \o digits)
    ELSE None

\* _normalize_uz_phone; None when the number is not an Uzbek one
normalize_uz_phone(raw) ==
    LET digits == digits_of(raw) IN
    IF startswith(digits, <<"9", "9", "8">>) /\ Len(digits) = 12 THEN V(<<"+">> \o digits)
    ELSE IF Len(digits) = 9 /\ digits[1] \in {"3", "4", "5", "6", "7", "8", "9"}
    THEN V(<<"+", "9", "9", "8">> \o digits)
    ELSE None

\* booking_phone_use_registered
booking_phone_use_registered(u) ==
    /\ Handler(fsm.state, u) = "booking_phone_use_registered"
    /\ fsm' = [state |-> "BookingForm:date",
               data |-> update_data(fsm.data,
                 [booking_phone |-> Get(fsm.data, "registered_phone", V(<<>>))])]
    /\ last' = Seen(u)
    /\ UNCHANGED <<live, users, saved, booked, completed, bookingVars, otherVars>>

\* booking_phone_ask_manual
booking_phone_ask_manual(u) ==
    /\ Handler(fsm.state, u) = "booking_phone_ask_manual"
    /\ fsm' = [fsm EXCEPT !.state = "BookingForm:phone_manual"]
    /\ last' = Seen(u)
    /\ UNCHANGED <<live, users, saved, booked, completed, bookingVars, otherVars>>

\* booking_phone_choice_fallback
booking_phone_choice_fallback(u) ==
    /\ Handler(fsm.state, u) = "booking_phone_choice_fallback"
    /\ last' = Seen(u)
    /\ UNCHANGED <<fsm, live, users, saved, booked, completed, bookingVars, otherVars>>

\* booking_phone_contact
booking_phone_contact(u) ==
    /\ Handler(fsm.state, u) = "booking_phone_contact"
    /\ LET phone == IF startswith(u.value, <<"+">>) THEN u.value ELSE <<"+">> \o u.value IN
       fsm' = IF ~u.own THEN fsm
              ELSE [state |-> "BookingForm:date",
                    data |-> update_data(fsm.data, [booking_phone |-> V(phone)])]
    /\ last' = Seen(u)
    /\ UNCHANGED <<live, users, saved, booked, completed, bookingVars, otherVars>>

\* booking_phone_manual
booking_phone_manual(u) ==
    /\ Handler(fsm.state, u) = "booking_phone_manual"
    /\ LET phone == normalize_uz_phone(strip(text_of(u))) IN
       fsm' = IF phone = None THEN fsm
              ELSE [state |-> "BookingForm:date",
                    data |-> update_data(fsm.data, [booking_phone |-> phone])]
    /\ last' = Seen(u)
    /\ UNCHANGED <<live, users, saved, booked, completed, bookingVars, otherVars>>

\* booking_date
booking_date(u) ==
    /\ Handler(fsm.state, u) = "booking_date"
    /\ LET date == strip(text_of(u)) IN
       fsm' = IF date = <<>> THEN fsm
              ELSE [state |-> "BookingForm:note",
                    data |-> update_data(fsm.data, [booking_date |-> V(date)])]
    /\ last' = Seen(u)
    /\ UNCHANGED <<live, users, saved, booked, completed, bookingVars, otherVars>>

\* booking_note
booking_note(u) ==
    /\ Handler(fsm.state, u) = "booking_note"
    /\ LET text == strip(text_of(u))
           note == IF lower(text) = T_skip THEN None ELSE V(text)
       IN fsm' = [state |-> "BookingForm:confirm",
                  data |-> update_data(fsm.data, [booking_note |-> note])]
    /\ live' = sent("uf:kb_booking_confirm")
    /\ last' = Seen(u)
    /\ UNCHANGED <<users, saved, booked, completed, bookingVars, otherVars>>

\* confirm_booking: the payload is read from the context with defaults and
\* handed to create_booking, which fails when the database does
confirm_booking(u) ==
    /\ Handler(fsm.state, u) = "confirm_booking"
    /\ \E db_ok \in BOOLEAN :
         LET data == fsm.data
             listing_id == Get(data, "booking_listing_id", None)
             payload == [guest_count |-> Get(data, "guest_count", V(1)),
                         guest_names |-> Get(data, "guest_names", V(<<>>)),
                         phone |-> Get(data, "booking_phone", V(<<>>)),
                         date |-> Get(data, "booking_date", V(<<>>)),
                         note |-> Get(data, "booking_note", None)]
         IN booked' = IF listing_id # None /\ db_ok
                      THEN Append(booked, [listing_id |-> listing_id.v,
                                           user_telegram_id |-> ChatId,
                                           payload |-> payload])
                      ELSE booked
    /\ fsm' = IdleFsm
    /\ live' = edited(u, {})
    /\ last' = Seen(u)
    /\ UNCHANGED <<users, saved, completed, bookingVars, otherVars>>

\* cancel_booking
cancel_booking(u) ==
    /\ Handler(fsm.state, u) = "cancel_booking"
    /\ fsm' = IdleFsm
    /\ live' = edited(u, {})
    /\ last' = Seen(u)
    /\ UNCHANGED <<users, saved, booked, completed, bookingVars, otherVars>>

\* an update no handler matches is dropped by the dispatcher
unhandled(u) ==
    /\ Handler(fsm.state, u) = "unhandled"
    /\ last' = Seen(u)
    /\ UNCHANGED <<fsm, live, users, saved, booked, completed, bookingVars, otherVars>>

\* ------------------------------------------------------------ the chat
\* the registered user of the chat
RegisteredUser ==
    [telegram_id |-> ChatId, phone |-> ContactPhonePlus,
     first_name |-> T_name, last_name |-> T_name]

\* the chat is followed until MaxRows rows were written
Open == Len(saved) + Len(booked) < MaxRows

\* callback queries of the buttons the messages of the chat still carry
Presses ==
    UNION {{Callback(d, live[i]) : d \in Buttons(live[i])} : i \in 1..Len(live)}

\* texts the chat sends whatever the bot asked last
WizardCommands == {T_add, T_cancel}

\* answers of the kind the wizard asked for: a free text where a text is
\* expected, a one-letter title, /skip where it is offered, a number for the price, a location,
\* up to MaxPhotosSent photos and /done
WizardAnswers ==
    LET state == fsm.state
        photos == Get(fsm.data, "photos", V(<<>>))
    IN {TextMsg(T_name) : x \in {1} \cap
            (IF state \in {"AddListing:title", "AddListing:description",
                           "AddListing:phone"} THEN {1} ELSE {})}
       \cup {TextMsg(T_letter) : x \in {1} \cap (IF state = "AddListing:title" THEN {1} ELSE {})}
       \cup {TextMsg(T_two) : x \in {1} \cap (IF state = "AddListing:price" THEN {1} ELSE {})}
       \cup {TextMsg(T_skip) : x \in {1} \cap
            (IF state \in {"AddListing:description", "AddListing:price", "AddListing:phone",
                           "AddListing:location", "AddListing:photos"} THEN {1} ELSE {})}
       \cup {LocationMsg : x \in {1} \cap (IF state = "AddListing:location" THEN {1} ELSE {})}
       \cup {TextMsg(T_done) : x \in {1} \cap (IF state = "AddListing:photos" THEN {1} ELSE {})}
       \cup {PhotoMsg : x \in {1} \cap
            (IF state = "AddListing:photos" /\ Len(photos.v) < MaxPhotosSent THEN {1} ELSE {})}

\* an admin in the add-listing wizard: it answers what the wizard asks, and
\* at any moment it may send a command or press a button still on screen
WizardUpdates ==
    IF Open THEN {TextMsg(t) : t \in WizardCommands} \cup WizardAnswers \cup Presses ELSE {}

WizardNext ==
    \/ \E u \in WizardUpdates : cmd_add(u)
    \/ \E u \in WizardUpdates : step_category(u)
    \/ \E u \in WizardUpdates : step_title(u)
    \/ \E u \in WizardUpdates : step_description(u)
    \/ \E u \in WizardUpdates : step_region(u)
    \/ \E u \in WizardUpdates : step_hotel_type(u)
    \/ \E u \in WizardUpdates : step_price(u)
    \/ \E u \in WizardUpdates : step_phone(u)
    \/ \E u \in WizardUpdates : step_location_received(u)
    \/ \E u \in WizardUpdates : step_location_text(u)
    \/ \E u \in WizardUpdates : step_photos_received(u)
    \/ \E u \in WizardUpdates : step_photos_text(u)
    \/ \E u \in WizardUpdates : step_save(u)
    \/ \E u \in WizardUpdates : cancel_callback(u)
    \/ \E u \in WizardUpdates : cmd_cancel(u)
    \/ \E u \in WizardUpdates : handle_unknown_text(u)

\* texts the chat sends whatever the bot asked last
BookingCommands == {T_browse, T_cancel}

\* answers of the kind the booking form asked for
BookingAnswers ==
    LET state == fsm.state
        texts == CASE state = "BookingForm:guest_count" -> {T_zero, T_one, T_two, T_eleven}
                   [] state = "BookingForm:extra_guest_names" -> {T_name, T_two_names}
                   [] state = "BookingForm:phone_choice" -> {T_use_registered, T_other_number}
                   [] state = "BookingForm:phone_manual" -> {T_local_phone}
                   [] state = "BookingForm:date" -> {T_date}
                   [] state = "BookingForm:note" -> {T_skip}
                   [] OTHER -> {}
    IN {TextMsg(t) : t \in texts}
       \cup {ContactMsg(ContactPhoneBare, TRUE) : x \in {1} \cap
               (IF state = "BookingForm:phone_manual" THEN {1} ELSE {})}

\* the chat browsing and booking: it answers what the form asks, and at any
\* moment it may send a command or press a button still on screen
BookingUpdates ==
    IF Open THEN {TextMsg(t) : t \in BookingCommands} \cup BookingAnswers \cup Presses ELSE {}

BookingFormNext ==
    \/ \E u \in BookingUpdates : cmd_browse(u)
    \/ \E u \in BookingUpdates : handle_unknown_text(u)
    \/ \E u \in BookingUpdates : select_region(u)
    \/ \E u \in BookingUpdates : select_category(u)
    \/ \E u \in BookingUpdates : select_subtype(u)
    \/ \E u \in BookingUpdates : pick_listing(u)
    \/ \E u \in BookingUpdates : back_to_region(u)
    \/ \E u \in BookingUpdates : back_to_category(u)
    \/ \E u \in BookingUpdates : back_to_list(u)
    \/ \E u \in BookingUpdates : start_booking(u)
    \/ \E u \in BookingUpdates : booking_guest_count(u)
    \/ \E u \in BookingUpdates : booking_extra_names(u)
    \/ \E u \in BookingUpdates : booking_phone_use_registered(u)
    \/ \E u \in BookingUpdates : booking_phone_ask_manual(u)
    \/ \E u \in BookingUpdates : booking_phone_choice_fallback(u)
    \/ \E u \in BookingUpdates : booking_phone_contact(u)
    \/ \E u \in BookingUpdates : booking_phone_manual(u)
    \/ \E u \in BookingUpdates : booking_date(u)
    \/ \E u \in BookingUpdates : booking_note(u)
    \/ \E u \in BookingUpdates : confirm_booking(u)
    \/ \E u \in BookingUpdates : cancel_booking(u)
    \/ \E u \in BookingUpdates : unhandled(u)

ChatInit == BookingInit /\ ChatIdle /\ OtherIdle /\ users = {RegisteredUser}

\* a registered admin chat adding listings
WizardSpec == ChatInit /\ [][WizardNext]_vars

\* a registered chat browsing the catalogue and booking
BookingFormSpec == ChatInit /\ [][BookingFormNext]_vars

\* ------------------------------------------- photo messages in parallel
\* start_polling handles every update as a task of its own and the
\* dispatcher has no events isolation, so the handlers of several photo
\* messages (an album) interleave at their awaits.
\* variant: the handler appends without looking at the length
step_photos_received_get_data_unlimited(h) ==
    /\ Open
    /\ Handler(fsm.state, PhotoMsg) = "step_photos_received"
    /\ photoTasks[h].pc = "idle"
    /\ LET photos == Get(fsm.data, "photos", V(<<>>)) IN
       photoTasks' = [photoTasks EXCEPT ![h] =
                        [pc |-> "update_data", photos |-> Append(photos.v, "file_id")]]
    /\ last' = Seen(PhotoMsg)
    /\ UNCHANGED <<fsm, live, users, saved, booked, completed, bookingVars, serviceVars, schemaVars, orderVars, dispatchVars>>

\* step_photos_received up to `await state.update_data`: the list read with
\* get_data, refused when it is full, else with the new file id appended
step_photos_received_get_data(h) ==
    /\ Open
    /\ Handler(fsm.state, PhotoMsg) = "step_photos_received"
    /\ photoTasks[h].pc = "idle"
    /\ LET photos == Get(fsm.data, "photos", V(<<>>)) IN
       photoTasks' = IF Len(photos.v) >= MAX_PHOTOS THEN photoTasks
                     ELSE [photoTasks EXCEPT ![h] =
                             [pc |-> "update_data", photos |-> Append(photos.v, "file_id")]]
    /\ last' = Seen(PhotoMsg)
    /\ UNCHANGED <<fsm, live, users, saved, booked, completed, bookingVars, serviceVars, schemaVars, orderVars, dispatchVars>>

\* step_photos_received from `await state.update_data(photos=photos)` on:
\* the list of the task replaces the one of the context, whatever the
\* conversation has become meanwhile
step_photos_received_update_data(h) ==
    /\ photoTasks[h].pc = "update_data"
    /\ fsm' = [fsm EXCEPT !.data = update_data(fsm.data, [photos |-> V(photoTasks[h].photos)])]
    /\ photoTasks' = [photoTasks EXCEPT ![h] = IdlePhotoTask]
    /\ UNCHANGED <<live, users, saved, booked, last, completed, bookingVars, serviceVars, schemaVars,
                   orderVars, dispatchVars>>

\* an admin who follows the wizard: /add when no conversation is active,
\* the answer the wizard asks for, a button on screen
PhotoUpdates ==
    IF Open
    THEN {TextMsg(T_add) : x \in {1} \cap (IF fsm.state = "none" THEN {1} ELSE {})}
           \cup (WizardAnswers \ {PhotoMsg}) \cup Presses
    ELSE {}

PhotosNext ==
    \/ \E u \in PhotoUpdates : cmd_add(u)
    \/ \E u \in PhotoUpdates : step_category(u)
    \/ \E u \in PhotoUpdates : step_title(u)
    \/ \E u \in PhotoUpdates : step_description(u)
    \/ \E u \in PhotoUpdates : step_region(u)
    \/ \E u \in PhotoUpdates : step_hotel_type(u)
    \/ \E u \in PhotoUpdates : step_price(u)
    \/ \E u \in PhotoUpdates : step_phone(u)
    \/ \E u \in PhotoUpdates : step_location_received(u)
    \/ \E u \in PhotoUpdates : step_location_text(u)
    \/ \E h \in PhotoTaskIds : step_photos_received_get_data(h)
    \/ \E h \in PhotoTaskIds : step_photos_received_update_data(h)
    \/ \E u \in PhotoUpdates : step_photos_text(u)
    \/ \E u \in PhotoUpdates : step_save(u)
    \/ \E u \in PhotoUpdates : cancel_callback(u)

\* a registered admin chat adding listings, its photo messages handled in
\* parallel
PhotosSpec == ChatInit /\ [][PhotosNext]_vars

\* ------------------------------------------ phone numbers typed by hand
\* what a user types for a phone number: with and without the plus and
\* the country code, with separators, too short, too long, with a wrong
\* first digit or country code, with a letter
PhoneInputs ==
    {prefix \o first \o rest \o tail :
        prefix \in {<<>>, <<"+">>, <<"9", "9", "8">>, <<"+", "9", "9", "8">>,
                    <<"9", "9", "7">>, <<"+", "9", "9", "8", " ">>},
        first \in {<<"9", "0">>, <<"2", "0">>, <<"(", "9", "0", ")">>, <<"3", "3">>},
        rest \in {<<"1", "2", "3", "4", "5", "6", "7">>,
                  <<"1", "2", "3", "-", "4", "5", "-", "6", "7">>,
                  <<"1", "2", "3">>,
                  <<"1", "2", "3", "4", "5", "6", "7", "8">>},
        tail \in {<<>>, <<"a">>}}
      \cup {<<"+", "1", "2", "3">>}

\* a user who goes straight to the manual phone step of the booking form
\* and types a number
PhoneUpdates ==
    LET state == fsm.state
        texts == CASE state = "none" -> {T_browse}
                   [] state = "BookingForm:guest_count" -> {T_one}
                   [] state = "BookingForm:phone_choice" -> {T_other_number}
                   [] state = "BookingForm:phone_manual" -> PhoneInputs
                   [] OTHER -> {}
    IN {TextMsg(t) : t \in texts}
         \cup {u \in Presses : u.value[2] \in {"region", "cat", "pick", "book"}}

PhoneNext ==
    \/ \E u \in PhoneUpdates : cmd_browse(u)
    \/ \E u \in PhoneUpdates : select_region(u)
    \/ \E u \in PhoneUpdates : select_category(u)
    \/ \E u \in PhoneUpdates : pick_listing(u)
    \/ \E u \in PhoneUpdates : start_booking(u)
    \/ \E u \in PhoneUpdates : booking_guest_count(u)
    \/ \E u \in PhoneUpdates : booking_phone_ask_manual(u)
    \/ \E u \in PhoneUpdates : booking_phone_manual(u)

\* a registered chat entering phone numbers by hand
PhoneSpec == ChatInit /\ [][PhoneNext]_vars

\* ------------------------------------------------- orders in SQLite
\* sqlite3.connect(..., timeout=30.0): seconds a statement waits for the
\* write lock.  A waiting statement counts the write transactions that
\* commit meanwhile; the insert of one row takes less than a second
BusyTimeout == 30

\* variant: the statement does not wait for the lock
busy_timeout_expired_at_once(waited) == TRUE

\* the busy handler gives up: "database is locked"
busy_timeout_expired(waited) == waited >= BusyTimeout

\* create_order up to cursor.execute: a connection of its own is opened
create_order_connect(t) ==
    /\ orderCalls[t].pc = "idle"
    /\ orderCalls' = [orderCalls EXCEPT ![t].pc = "execute"]
    /\ UNCHANGED <<sqlite, chatVars, bookingVars, serviceVars, photoTasks, schemaVars, dispatchVars>>

\* cursor.execute(INSERT ...): the statement takes the write lock and the
\* row gets the next AUTOINCREMENT id; while another connection holds the
\* lock it waits, and when the timeout expires sqlite3.OperationalError is
\* raised, which create_order catches to return -1
create_order_execute(t) ==
    /\ orderCalls[t].pc = "execute"
    /\ IF sqlite.writer = 0
       THEN /\ sqlite' = [sqlite EXCEPT !.writer = t]
            /\ orderCalls' = [orderCalls EXCEPT ![t].pc = "commit",
                                                ![t].order_id = sqlite.seq + 1]
       ELSE /\ busy_timeout_expired(orderCalls[t].waited)
            /\ orderCalls' = [orderCalls EXCEPT ![t].pc = "done", ![t].result = -1]
            /\ UNCHANGED sqlite
    /\ UNCHANGED <<chatVars, bookingVars, serviceVars, photoTasks, schemaVars, dispatchVars>>

\* order_id = cursor.lastrowid; conn.commit(); conn.close();
\* return order_id if order_id else -1
create_order_commit(t) ==
    /\ orderCalls[t].pc = "commit"
    /\ sqlite' = [writer |-> 0, orders |-> Append(sqlite.orders, orderCalls[t].order_id),
                  seq |-> orderCalls[t].order_id]
    /\ orderCalls' =
         [u \in ThreadIds |->
            IF u = t
            THEN [orderCalls[t] EXCEPT !.pc = "done",
                    !.result = IF orderCalls[t].order_id # 0 THEN orderCalls[t].order_id
                               ELSE -1]
            ELSE IF orderCalls[u].pc = "execute"
            THEN [orderCalls[u] EXCEPT !.waited = @ + 1]
            ELSE orderCalls[u]]
    /\ UNCHANGED <<chatVars, bookingVars, serviceVars, photoTasks, schemaVars, dispatchVars>>

OrdersNext ==
    \/ \E t \in ThreadIds : create_order_connect(t)
    \/ \E t \in ThreadIds : create_order_execute(t)
    \/ \E t \in ThreadIds : create_order_commit(t)

\* the threads of a pool, each calling create_order once
OrdersSpec == Init /\ [][OrdersNext]_vars

\* ------------------------------------------- mark_booking_dispatched
\* mark_booking_dispatched(booking_id, partner_msg_id): the guarded UPDATE,
\* `return res == "UPDATE 1"`
mark_booking_dispatched(b, partner_msg_id) ==
    /\ Len(marks[b]) < MaxMarks
    /\ LET updated == mark_dispatched_where(bookings[b]) IN
       /\ bookings' = [bookings EXCEPT ![b] =
                         IF updated THEN mark_dispatched_set(@, partner_msg_id, now) ELSE @]
       /\ marks' = [marks EXCEPT ![b] =
                      Append(@, [partner_msg_id |-> partner_msg_id, at |-> now,
                                 updated |-> updated])]
    /\ UNCHANGED <<now, confirm, cb, sw, ownerSends, prompts, userMsgs, adminMsgs, swept>>
    /\ UNCHANGED <<dbFailed, chatVars, serviceVars, photoTasks, schemaVars, orderVars, sweepLoop, notices>>

\* bookings are created, marked as dispatched by callers with message ids
\* of their own, and swept
MarkNext ==
    \/ Tick
    \/ \E b \in BookingIds, l \in ListingIds : ConfirmCreate(b, l)
    \/ \E b \in BookingIds, m \in PartnerMsgIds : mark_booking_dispatched(b, m)
    \/ \E s \in SweeperIds : SweepBegin(s)
    \/ \E s \in SweeperIds, b \in BookingIds : SweepRow(s, b)
    \/ \E s \in SweeperIds : SweepReturn(s)
    \/ \E s \in SweeperIds, b \in BookingIds : SweepNotify(s, b)

MarkSpec == Init /\ [][MarkNext]_vars

\* ------------------------------------- timeout notices of one batch
\* variant: an error of the transport leaves the function as an exception
safe_send_html_raising(delivered) == IF delivered THEN "message_id" ELSE "raise"

\* safe_send_html: the message id when the message went out, None when
\* bot.send_message raised; no Exception leaves the function
safe_send_html(delivered) == IF delivered THEN "message_id" ELSE "None"

\* timeout_checker_loop: asyncio.sleep(30) is over and
\* fetch_expired_bookings returned n rows
timeout_checker_fetch(n) ==
    /\ sweepLoop.pc = "sleep"
    /\ sweepLoop' = [pc |-> IF n = 0 THEN "sleep" ELSE "notify", expired |-> n,
                     booking |-> IF n = 0 THEN 0 ELSE 1,
                     recipient |-> IF n = 0 THEN 0 ELSE 1]
    /\ notices' = NoNotices
    /\ UNCHANGED <<marks, chatVars, bookingVars, serviceVars, photoTasks, schemaVars, orderVars>>

\* timeout_checker_loop, one safe_send_html of `for booking in expired`:
\* to the user first, then to each admin; an exception that reached the
\* loop would end the batch in `except Exception`
timeout_checker_send(delivered) ==
    /\ sweepLoop.pc = "notify"
    /\ LET b == sweepLoop.booking
           r == sweepLoop.recipient
           result == safe_send_html(delivered)
       IN IF result = "raise"
          THEN /\ sweepLoop' = [sweepLoop EXCEPT !.pc = "sleep"]
               /\ UNCHANGED notices
          ELSE /\ notices' = [notices EXCEPT ![b][r] =
                                IF result = "None" THEN "failed" ELSE "sent"]
               /\ sweepLoop' =
                    IF r < Len(TimeoutRecipients)
                    THEN [sweepLoop EXCEPT !.recipient = r + 1]
                    ELSE IF b < sweepLoop.expired
                    THEN [sweepLoop EXCEPT !.booking = b + 1, !.recipient = 1]
                    ELSE [sweepLoop EXCEPT !.pc = "sleep"]
    /\ UNCHANGED <<marks, chatVars, bookingVars, serviceVars, photoTasks, schemaVars, orderVars>>

TimeoutNoticesNext ==
    \/ \E n \in 0..MaxBatch : timeout_checker_fetch(n)
    \/ \E delivered \in BOOLEAN : timeout_checker_send(delivered)

TimeoutNoticesSpec == Init /\ [][TimeoutNoticesNext]_vars

\* stop_timeout_checker: _timeout_task.cancel() and the await of the task.
\* CancelledError is raised in timeout_checker_loop at the await it is
\* suspended in (asyncio.sleep, fetch_expired_bookings or the
\* bot.send_message inside safe_send_html, whose `except Exception` does not
\* catch it) and `except asyncio.CancelledError: break` ends the loop
stop_timeout_checker ==
    /\ sweepLoop.pc \in {"sleep", "notify"}
    /\ sweepLoop' = [sweepLoop EXCEPT !.pc = "stopped"]
    /\ UNCHANGED <<notices, marks, chatVars, bookingVars, serviceVars, photoTasks, schemaVars, orderVars>>

ShutdownNext ==
    \/ \E n \in 0..MaxBatch : timeout_checker_fetch(n)
    \/ \E delivered \in BOOLEAN : timeout_checker_send(delivered)
    \/ stop_timeout_checker

\* the timeout checker until the shutdown of the process
ShutdownSpec == Init /\ [][ShutdownNext]_vars

\* ------------------------------------------------------ retry_telegram
\* default of retry_telegram
max_retries == 3

RECURSIVE pow2(_)
\* 2 ** n
pow2(n) == IF n = 0 THEN 1 ELSE 2 * pow2(n - 1)

\* The awaitables a caller can pass: a coroutine object, which Python
\* lets be awaited once ("cannot reuse already awaited coroutine" is a
\* RuntimeError on the second await); a task, whose every later await gives
\* the outcome of its one run again; or an aiogram method object, whose
\* every await makes the request again
Awaitables == {"coroutine", "task", "method"}

\* retry_telegram(coro, base_delay=...) is called
retry_telegram_call(awaitable, base_delay) ==
    /\ retry.pc = "idle"
    /\ retry' = [NoRetry EXCEPT !.pc = "loop", !.awaitable = awaitable,
                                !.base_delay = base_delay]
    /\ UNCHANGED <<send, errorVars, chatVars, bookingVars, lateVars, photoTasks, schemaVars, orderVars,
                   dispatchVars>>

\* one iteration of `for attempt in range(max_retries)`: the await and the
\* except clause it ends in.  attempt counts from 0 as in the code
retry_telegram_attempt(outcome, retry_after) ==
    /\ retry.pc = "loop"
    /\ LET attempt == retry.attempt
           again == attempt > 0
           reused == retry.awaitable = "coroutine" /\ again
           stored == retry.awaitable = "task" /\ again
           raised == IF stored THEN retry.first
                     ELSE [outcome |-> outcome,
                           retry_after |-> IF outcome = "TelegramRetryAfter"
                                           THEN retry_after ELSE 0]
           calls == IF reused \/ stored THEN retry.calls ELSE retry.calls + 1
           next_pc == IF attempt + 1 < max_retries THEN "loop" ELSE "done"
           awaited == [retry EXCEPT !.attempt = attempt + 1, !.calls = calls,
                                    !.first = IF again THEN @ ELSE raised]
       IN retry' =
            IF reused THEN [awaited EXCEPT !.pc = "done", !.result = "RuntimeError"]
            ELSE CASE raised.outcome = "ok" ->
                        [awaited EXCEPT !.pc = "done", !.result = "returned"]
                   [] raised.outcome = "TelegramRetryAfter" ->
                        [awaited EXCEPT !.pc = next_pc,
                                        !.slept = Append(@, raised.retry_after + 1),
                                        !.result = IF next_pc = "done"
                                                   THEN "TelegramRetryAfter" ELSE "none"]
                   [] OTHER ->
                        IF attempt = max_retries - 1
                        THEN [awaited EXCEPT !.pc = "done", !.result = "TelegramAPIError"]
                        ELSE [awaited EXCEPT
                                !.slept = Append(@, retry.base_delay * pow2(attempt))]
    /\ retry_after = 1 \/ outcome = "TelegramRetryAfter"
    /\ UNCHANGED <<send, errorVars, chatVars, bookingVars, lateVars, photoTasks, schemaVars, orderVars,
                   dispatchVars>>

\* the caller has the result or the exception; the next call can start
retry_telegram_return ==
    /\ retry.pc = "done"
    /\ retry' = NoRetry
    /\ UNCHANGED <<send, errorVars, chatVars, bookingVars, lateVars, photoTasks, schemaVars, orderVars,
                   dispatchVars>>

RetryNext ==
    \/ \E awaitable \in Awaitables, base_delay \in 1..MaxBaseDelay :
          retry_telegram_call(awaitable, base_delay)
    \/ \E outcome \in {"ok", "TelegramRetryAfter", "TelegramAPIError"},
          retry_after \in 1..MaxRetryAfter : retry_telegram_attempt(outcome, retry_after)
    \/ retry_telegram_return

RetrySpec == Init /\ [][RetryNext]_vars

\* ------------------------------------------------------ safe_send_html
\* what bot.send_message can end in: a message id, TelegramBadRequest
\* "can't parse entities", another TelegramBadRequest, any other Exception
SendOutcomes ==
    [kind : {"sent"}, message_id : 1..MaxSendId]
    \cup [kind : {"cant_parse_entities", "bad_request", "error"}, message_id : {NULL}]

\* variant: every TelegramBadRequest leads to the plain-text send
is_parse_error_any_bad_request(outcome) ==
    outcome.kind \in {"cant_parse_entities", "bad_request"}

\* `except TelegramBadRequest as e: if "can't parse entities" in str(e).lower()`
is_parse_error(outcome) == outcome.kind = "cant_parse_entities"

\* safe_send_html(bot, chat_id, text, reply_markup) is called
safe_send_html_call(chat_id, text, reply_markup) ==
    /\ send.pc = "idle"
    /\ send' = [NoSend EXCEPT !.pc = "html", !.chat_id = chat_id, !.text = text,
                              !.reply_markup = reply_markup]
    /\ UNCHANGED <<retry, errorVars, chatVars, bookingVars, lateVars, photoTasks, schemaVars, orderVars,
                   dispatchVars>>

\* the send with parse_mode="HTML" and the except clause it ends in
safe_send_html_first(outcome) ==
    /\ send.pc = "html"
    /\ send' = [send EXCEPT
                  !.requests = Append(@, [chat_id |-> send.chat_id, text |-> send.text,
                                          parse_mode |-> "HTML",
                                          reply_markup |-> send.reply_markup]),
                  !.first = outcome,
                  !.pc = IF outcome.kind # "sent" /\ is_parse_error(outcome)
                         THEN "plain" ELSE "done",
                  !.result = outcome.message_id]
    /\ UNCHANGED <<retry, errorVars, chatVars, bookingVars, lateVars, photoTasks, schemaVars, orderVars,
                   dispatchVars>>

\* the send with parse_mode=None; `except Exception: pass` and return None
safe_send_html_second(outcome) ==
    /\ send.pc = "plain"
    /\ send' = [send EXCEPT
                  !.requests = Append(@, [chat_id |-> send.chat_id, text |-> send.text,
                                          parse_mode |-> "None",
                                          reply_markup |-> send.reply_markup]),
                  !.second = outcome,
                  !.pc = "done",
                  !.result = outcome.message_id]
    /\ UNCHANGED <<retry, errorVars, chatVars, bookingVars, lateVars, photoTasks, schemaVars, orderVars,
                   dispatchVars>>

\* the caller has the value; the next call can start
safe_send_html_return ==
    /\ send.pc = "done"
    /\ send' = NoSend
    /\ UNCHANGED <<retry, errorVars, chatVars, bookingVars, lateVars, photoTasks, schemaVars, orderVars,
                   dispatchVars>>

SendNext ==
    \/ \E chat_id \in {UserChat, OwnerChat, OtherAdmin}, text \in {"<b>a</b>", "a<b"},
          reply_markup \in {"None", "keyboard"} :
          safe_send_html_call(chat_id, text, reply_markup)
    \/ \E outcome \in SendOutcomes : safe_send_html_first(outcome)
    \/ \E outcome \in SendOutcomes : safe_send_html_second(outcome)
    \/ safe_send_html_return

SendSpec == Init /\ [][SendNext]_vars

\* ------------------------------------------------------- error reports
\* `if len(_error_cache) > 100` and `[:50]`
CacheLimit == 100
EvictCount == 50

\* _error_cache.get(error_hash, 0)
cache_get(cache, error_hash) ==
    IF \E i \in 1..Len(cache) : cache[i].error_hash = error_hash
    THEN (CHOOSE e \in {cache[i] : i \in 1..Len(cache)} : e.error_hash = error_hash).at
    ELSE 0

\* _error_cache[error_hash] = now: a key the dict holds keeps its place, a
\* new key goes to the end
cache_set(cache, error_hash, at) ==
    IF \E i \in 1..Len(cache) : cache[i].error_hash = error_hash
    THEN [i \in 1..Len(cache) |->
            IF cache[i].error_hash = error_hash THEN [cache[i] EXCEPT !.at = at]
            ELSE cache[i]]
    ELSE Append(cache, [error_hash |-> error_hash, at |-> at])

\* variant: the entries sent last are the ones that go
newest_keys(cache) ==
    {i \in 1..Len(cache) :
        Cardinality({j \in 1..Len(cache) :
            cache[j].at > cache[i].at \/ (cache[j].at = cache[i].at /\ j > i)}) < EvictCount}

\* sorted(_error_cache, key=_error_cache.get)[:50]: the positions of the
\* 50 entries with the smallest timestamps; sorted is stable, so equal
\* timestamps go in the order of the dict
oldest_keys(cache) ==
    {i \in 1..Len(cache) :
        Cardinality({j \in 1..Len(cache) :
            cache[j].at < cache[i].at \/ (cache[j].at = cache[i].at /\ j < i)}) < EvictCount}

\* the dict after `for k in oldest_keys: _error_cache.pop(k, None)`: the
\* other entries in their order
without(cache, gone) ==
    LET kept(e) == \A i \in gone : cache[i].error_hash # e.error_hash
    IN SelectSeq(cache, kept)

\* _should_send: the cache it leaves and the value it returns
should_send(cache, now_, error_hash) ==
    IF now_ - cache_get(cache, error_hash) < THROTTLE_SECONDS
    THEN [cache |-> cache, send |-> FALSE, evicted |-> {}]
    ELSE LET recorded == cache_set(cache, error_hash, now_)
             gone == IF Len(recorded) > CacheLimit THEN oldest_keys(recorded) ELSE {}
         IN [cache |-> without(recorded, gone), send |-> TRUE,
             evicted |-> {recorded[i] : i \in gone}]

\* error_handler for an exception with the given hash: the throttle check
\* and, when it passes, the report to every admin
error_handler(error_hash) ==
    LET r == should_send(error_cache, errorReports.now, error_hash) IN
    /\ error_cache' = r.cache
    /\ errorReports' =
         [errorReports EXCEPT
            !.fresh = IF error_hash > @ THEN error_hash ELSE @,
            !.forwarded = [h \in 1..MaxRepeated |->
                             IF h = error_hash /\ r.send THEN errorReports.now ELSE @[h]],
            !.last = [error_hash |-> error_hash, sent |-> r.send,
                      before |-> IF error_hash \in 1..MaxRepeated
                                 THEN errorReports.forwarded[error_hash] ELSE NULL,
                      evicted |-> r.evicted]]
    /\ UNCHANGED <<retry, send, chatVars, bookingVars, lateVars, photoTasks, schemaVars, orderVars,
                   dispatchVars>>

\* an exception of a kind that was not seen before
ReportNewError ==
    /\ errorReports.fresh < MaxHashes
    /\ error_handler(errorReports.fresh + 1)

\* an exception whose hash was reported before
ReportSameError(error_hash) ==
    /\ error_hash <= errorReports.fresh
    /\ error_handler(error_hash)

\* the errors of two throttle windows are followed
LastErrorInstant == 2 * THROTTLE_SECONDS

\* time.time() moves on by the length of the throttle window
ErrorTick ==
    /\ errorReports.now < LastErrorInstant
    /\ errorReports' = [errorReports EXCEPT !.now = @ + THROTTLE_SECONDS]
    /\ UNCHANGED <<error_cache, retry, send, chatVars, bookingVars, lateVars, photoTasks, schemaVars,
                   orderVars, dispatchVars>>

ErrorsNext ==
    \/ ReportNewError
    \/ \E error_hash \in 1..MaxRepeated : ReportSameError(error_hash)
    \/ ErrorTick

ErrorsSpec == Init /\ [][ErrorsNext]_vars

\* ----------------------------------- the confirm button pressed twice
\* booking_note / booking_skip_note: the form is complete, the context
\* holds booking_listing_id and the confirmation with its button is shown
show_confirmation ==
    /\ form.data = "none"
    /\ form.rows = 0
    /\ form' = [form EXCEPT !.data = "complete"]
    /\ UNCHANGED <<confirmTasks, raceVars, mylVars, shortVars, baseVars>>

\* confirm_booking up to `if not listing_id`: callback.answer(), get_data.
\* The handler has no state filter, so it runs for every press of the
\* button, and the dispatcher runs the handlers of two updates as two tasks
confirm_booking_get_data(t) ==
    /\ confirmTasks[t].pc = "idle"
    /\ form.data # "none" \/ form.rows > 0
    /\ confirmTasks' = [confirmTasks EXCEPT ![t] =
                          IF form.data = "complete"
                          THEN [pc |-> "create", listing_id |-> "listing", reply |-> "none"]
                          ELSE [pc |-> "clear", listing_id |-> "none", reply |-> "error"]]
    /\ UNCHANGED <<form, raceVars, mylVars, shortVars, baseVars>>

\* confirm_booking: db.create_booking, a plain INSERT
confirm_booking_create(t, db_ok) ==
    /\ confirmTasks[t].pc = "create"
    /\ form' = [form EXCEPT !.rows = IF db_ok THEN @ + 1 ELSE @]
    /\ confirmTasks' = [confirmTasks EXCEPT ![t].pc = IF db_ok THEN "dispatch" ELSE "clear",
                                            ![t].reply = IF db_ok THEN "none" ELSE "error"]
    /\ UNCHANGED <<raceVars, mylVars, shortVars, baseVars>>

\* confirm_booking: dispatch_booking_to_owner and dispatch_booking_to_admins
confirm_booking_dispatch(t, delivered) ==
    /\ confirmTasks[t].pc = "dispatch"
    /\ form' = [form EXCEPT !.prompts = IF delivered THEN @ + 1 ELSE @]
    /\ confirmTasks' = [confirmTasks EXCEPT ![t].pc = "clear",
                                            ![t].reply = confirm_reply(delivered)]
    /\ UNCHANGED <<raceVars, mylVars, shortVars, baseVars>>

\* confirm_booking: the reply and state.clear()
confirm_booking_clear(t) ==
    /\ confirmTasks[t].pc = "clear"
    /\ form' = [form EXCEPT !.data = "none"]
    /\ confirmTasks' = [confirmTasks EXCEPT ![t].pc = "done"]
    /\ UNCHANGED <<raceVars, mylVars, shortVars, baseVars>>

ConfirmTwiceNext ==
    \/ show_confirmation
    \/ \E t \in PressIds : confirm_booking_get_data(t)
    \/ \E t \in PressIds, db_ok \in BOOLEAN : confirm_booking_create(t, db_ok)
    \/ \E t \in PressIds, delivered \in BOOLEAN : confirm_booking_dispatch(t, delivered)
    \/ \E t \in PressIds : confirm_booking_clear(t)

ConfirmTwiceSpec == Init /\ [][ConfirmTwiceNext]_vars

\* --------------------------- booking while the owner changes the listing
\* get_listing: SELECT ... FROM listings WHERE id = $1, whatever is_active
listing_found(l) == listingStatus[l] # "deleted"

\* fetch_listings (is_active = true) and pick_listing: the card of an
\* active listing with its book button is in front of the user
show_card(l) ==
    /\ bookingFlow.pc = "idle"
    /\ listingStatus[l] = "active"
    /\ bookingFlow' = [bookingFlow EXCEPT !.pc = "card", !.listing = l]
    /\ UNCHANGED <<listingStatus, confirmVars, mylVars, shortVars, baseVars>>

\* start_booking: get_listing, "Listing topilmadi" when there is no row
start_booking_get_listing ==
    /\ bookingFlow.pc = "card"
    /\ bookingFlow' = IF listing_found(bookingFlow.listing)
                      THEN [bookingFlow EXCEPT !.pc = "form"]
                      ELSE [bookingFlow EXCEPT !.pc = "idle", !.listing = 0]
    /\ UNCHANGED <<listingStatus, confirmVars, mylVars, shortVars, baseVars>>

\* confirm_booking with the listing id kept in the context: create_booking,
\* an INSERT that the foreign key to listings(id) rejects when the row of
\* the listing is gone; the listing is not read again
confirm_booking_insert ==
    /\ bookingFlow.pc = "form"
    /\ Len(bookingFlow.created) < MaxFormBookings
    /\ LET l == bookingFlow.listing IN
       bookingFlow' =
         [pc |-> "idle", listing |-> 0,
          created |-> IF listingStatus[l] = "deleted" THEN bookingFlow.created
                      ELSE Append(bookingFlow.created,
                                  [listing_id |-> l, listing_was |-> listingStatus[l]])]
    /\ UNCHANGED <<listingStatus, confirmVars, mylVars, shortVars, baseVars>>

\* myl_toggle of the owner: toggle_listing_active
toggle_listing_active(l) ==
    /\ listingStatus[l] # "deleted"
    /\ listingStatus' = [listingStatus EXCEPT ![l] =
                           IF @ = "active" THEN "inactive" ELSE "active"]
    /\ UNCHANGED <<bookingFlow, confirmVars, mylVars, shortVars, baseVars>>

\* myl_delete_execute of the owner: delete_listing; ON DELETE CASCADE
\* takes the bookings of the listing with it
delete_listing(l) ==
    /\ listingStatus[l] # "deleted"
    /\ listingStatus' = [listingStatus EXCEPT ![l] = "deleted"]
    /\ bookingFlow' = [bookingFlow EXCEPT
                         !.created = SelectSeq(@, LAMBDA r : r.listing_id # l)]
    /\ UNCHANGED <<confirmVars, mylVars, shortVars, baseVars>>

ListingRaceNext ==
    \/ \E l \in ListingIds : show_card(l)
    \/ start_booking_get_listing
    \/ confirm_booking_insert
    \/ \E l \in ListingIds : toggle_listing_active(l)
    \/ \E l \in ListingIds : delete_listing(l)

ListingRaceSpec == Init /\ [][ListingRaceNext]_vars

\* ------------------------------------------------------ /my_listings
\* variant: the listings of every admin are returned
fetch_listings_by_anyone(admin_id) ==
    {l \in 1..Len(MyListingRows) : adminListings[l] # "deleted"}

\* fetch_listings_by_admin: WHERE telegram_admin_id = $1
fetch_listings_by_admin(admin_id) ==
    {l \in 1..Len(MyListingRows) :
        adminListings[l] # "deleted" /\ MyListingRows[l].telegram_admin_id = admin_id}

\* myl_toggle / myl_delete_execute up to the store call: the listings of
\* the caller, newest first, and the first whose id starts with the short
\* id of the button
myl_fetch(c, op, short) ==
    /\ mylTasks[c].pc \in {"idle", "done"}
    /\ LET matching == {l \in fetch_listings_by_admin(c) : MyListingRows[l].short = short}
       IN mylTasks' = [mylTasks EXCEPT ![c] =
            IF matching = {}
            THEN [pc |-> "done", op |-> op, short |-> short, listing |-> 0,
                  is_active |-> FALSE]
            ELSE LET listing == CHOOSE l \in matching : \A m \in matching : m <= l
                 IN [pc |-> "update", op |-> op, short |-> short, listing |-> listing,
                     is_active |-> adminListings[listing] = "active"]]
    /\ UNCHANGED <<adminListings, confirmVars, raceVars, shortVars, baseVars>>

\* toggle_listing_active(listing["id"], not listing["is_active"]) or
\* delete_listing(listing["id"]): one statement WHERE id = $n
myl_update(c) ==
    /\ mylTasks[c].pc = "update"
    /\ LET l == mylTasks[c].listing IN
       adminListings' =
         IF adminListings[l] = "deleted" THEN adminListings
         ELSE [adminListings EXCEPT ![l] =
                 IF mylTasks[c].op = "delete" THEN "deleted"
                 ELSE IF mylTasks[c].is_active THEN "inactive" ELSE "active"]
    /\ mylTasks' = [mylTasks EXCEPT ![c].pc = "done"]
    /\ UNCHANGED <<confirmVars, raceVars, shortVars, baseVars>>

MyListingsNext ==
    \/ \E c \in ADMINS, op \in {"toggle", "delete"}, short \in {"aaaaaaaa", "bbbbbbbb"} :
          myl_fetch(c, op, short)
    \/ \E c \in ADMINS : myl_update(c)

MyListingsSpec == Init /\ [][MyListingsNext]_vars

\* ------------------------------------------- prompts and short ids
\* find_booking_by_short_id: WHERE b.id::text LIKE bid_short || '%', the
\* rows fetchrow may return (the statement has no ORDER BY)
find_booking_by_short_id(bid_short) ==
    {b \in 1..Len(PromptRows) : PromptRows[b].short = bid_short}

\* accept_booking / reject_booking up to the atomic update, for the button
\* on the prompt of booking b pressed by its owner
prompt_find(kind, b) ==
    /\ promptTask.pc \in {"idle", "done"}
    /\ \E booking \in find_booking_by_short_id(PromptRows[b].short) :
         promptTask' =
           [pc |-> IF /\ IsOwnerCaller(PromptRows[b].owner_user_id,
                                       PromptRows[booking].owner_user_id)
                      /\ promptStatus[booking] \in {"pending_partner", "sent"}
                   THEN "update" ELSE "done",
            kind |-> kind, pressed |-> b, booking |-> booking]
    /\ UNCHANGED <<promptStatus, confirmVars, raceVars, mylVars, baseVars>>

\* accept_booking_atomic / reject_booking_atomic(booking["id"], owner_id)
prompt_update ==
    /\ promptTask.pc = "update"
    /\ promptStatus' =
         IF promptStatus[promptTask.booking] \in {"pending_partner", "sent"}
         THEN [promptStatus EXCEPT ![promptTask.booking] = promptTask.kind]
         ELSE promptStatus
    /\ promptTask' = [promptTask EXCEPT !.pc = "done"]
    /\ UNCHANGED <<confirmVars, raceVars, mylVars, baseVars>>

\* the sweeper marks a pending booking as timed out
prompt_timeout(b) ==
    /\ promptStatus[b] \in {"pending_partner", "sent"}
    /\ promptStatus' = [promptStatus EXCEPT ![b] = "timeout"]
    /\ UNCHANGED <<promptTask, confirmVars, raceVars, mylVars, baseVars>>

ShortIdNext ==
    \/ \E kind \in {"accepted", "rejected"}, b \in 1..Len(PromptRows) : prompt_find(kind, b)
    \/ prompt_update
    \/ \E b \in 1..Len(PromptRows) : prompt_timeout(b)

ShortIdSpec == Init /\ [][ShortIdNext]_vars

\* ------------------------------------------- operations on the schema
\* the service starts: ensure_schema runs once more
EnsureSchema ==
    /\ schemaOp.runs < MaxSchemaRuns
    /\ LET db == ensure_schema(schema) IN
       /\ schema' = [db EXCEPT !.error = FALSE]
       /\ schemaOp' = [schemaOp EXCEPT !.op = "ensure_schema", !.value = <<>>,
                                       !.ok = ~db.error, !.runs = @ + 1]
    /\ UNCHANGED <<chatVars, bookingVars, serviceVars, photoTasks, orderVars, dispatchVars>>

\* columns that a version of ensure_schema adds to a table that exists:
\* the schema of an earlier version lacks one of them
AddedColumns ==
    {<<"listings", c>> : c \in {"is_active", "telegram_admin_id", "owner_user_id"}}
      \cup {<<"bookings", c>> : c \in {"listing_id", "status", "owner_user_id",
                                       "partner_message_id", "dispatched_at"}}

\* indexes that ensure_schema creates by name
NamedIndexes == {i \in BootstrappedDb.indexes : i.name # "users_telegram_id_key"}

\* an operator drops one column, and with it the indexes and the foreign key
\* that use it
DropColumn(table, column) ==
    /\ schemaOp.dropped.column = <<>>
    /\ <<table, column>> \in schema.columns
    /\ schema' = [schema EXCEPT
                    !.columns = @ \ {<<table, column>>},
                    !.indexes = {i \in @ : ~(i.table = table /\ column \in i.columns)},
                    !.constraints = IF <<table, column>> = <<"bookings", "listing_id">>
                                    THEN {} ELSE @]
    /\ schemaOp' = [schemaOp EXCEPT !.op = "drop", !.value = <<>>, !.ok = TRUE,
                                    !.dropped.column = <<table, column>>]
    /\ UNCHANGED <<chatVars, bookingVars, serviceVars, photoTasks, orderVars, dispatchVars>>

\* an operator drops one index
DropIndex(index) ==
    /\ schemaOp.dropped.index = <<>>
    /\ index \in schema.indexes
    /\ schema' = [schema EXCEPT !.indexes = @ \ {index}]
    /\ schemaOp' = [schemaOp EXCEPT !.op = "drop", !.value = <<>>, !.ok = TRUE,
                                    !.dropped.index = <<index.table, index.name>>]
    /\ UNCHANGED <<chatVars, bookingVars, serviceVars, photoTasks, orderVars, dispatchVars>>

\* the service writes a row: a listing, a booking of a listing
InsertRow(table) ==
    /\ table \in schema.tables \cap {"listings", "bookings"}
    /\ schema.rows[table] < MaxTableRows
    /\ table = "bookings" => schema.rows["listings"] > 0
    /\ schema' = [schema EXCEPT !.rows[table] = @ + 1]
    /\ schemaOp' = [schemaOp EXCEPT !.op = "insert", !.value = <<>>, !.ok = TRUE]
    /\ UNCHANGED <<chatVars, bookingVars, serviceVars, photoTasks, orderVars, dispatchVars>>

\* values of the ALLOW_DB_RESET environment variable
ResetValues ==
    {<<"t", "r", "u", "e">>, <<"T", "R", "U", "E">>, <<"f", "a", "l", "s", "e">>, <<"1">>,
     <<>>}

\* reset_schema is called
ResetSchema(value) ==
    /\ schemaOp.resets < MaxResets
    /\ LET result == reset_schema(schema, value) IN
       /\ schema' = result.db
       /\ schemaOp' = [schemaOp EXCEPT !.op = "reset_schema", !.value = value,
                                       !.ok = result.ok, !.resets = @ + 1]
    /\ UNCHANGED <<chatVars, bookingVars, serviceVars, photoTasks, orderVars, dispatchVars>>

\* reset_database is called
ResetDatabase(value) ==
    /\ schemaOp.resets < MaxResets
    /\ LET result == reset_database(schema, value) IN
       /\ schema' = result.db
       /\ schemaOp' = [schemaOp EXCEPT !.op = "reset_database", !.value = value,
                                       !.ok = result.ok, !.resets = @ + 1]
    /\ UNCHANGED <<chatVars, bookingVars, serviceVars, photoTasks, orderVars, dispatchVars>>

SchemaNext ==
    \/ EnsureSchema
    \/ \E x \in AddedColumns : DropColumn(x[1], x[2])
    \/ \E i \in NamedIndexes : DropIndex(i)
    \/ \E table \in TableNames : InsertRow(table)
    \/ \E value \in ResetValues : ResetSchema(value)
    \/ \E value \in ResetValues : ResetDatabase(value)

\* a database of any earlier version of the schema, empty at first
SchemaInit ==
    /\ BookingInit /\ ChatIdle /\ PhotoTasksIdle /\ OrdersIdle /\ DispatchIdle /\ ServiceIdle
    /\ users = {}
    /\ schema \in {EmptyDb, LegacyDb}
    /\ schemaOp = NoSchemaOp

SchemaSpec == SchemaInit /\ [][SchemaNext]_vars

\* ======================================================================
\* Properties
\* ======================================================================
Answered(p) == cb[p].result # "none"

ByOwner(p) == cb[p].from_user = bookings[cb[p].booking].owner_user_id

PendingNotices(b, k) ==
    Cardinality({p \in CbIds : cb[p].pc = "notify" /\ cb[p].booking = b
                               /\ Outcome(cb[p].kind) = k})
    + (IF k = "timeout" THEN Cardinality({s \in SweeperIds : b \in sw[s].got}) ELSE 0)

\* C1: once the status of a booking is accepted, rejected or timeout, no
\* step of the dispatcher, the owner callbacks or the sweeper changes it.
C1_TerminalAbsorbing ==
    [][\A b \in BookingIds :
          bookings[b].status \in Terminal => bookings'[b].status = bookings[b].status]_vars

\* a terminal booking on which a later owner callback was refused
C1_Witness ==
    \E b \in BookingIds, p \in CbIds :
        /\ bookings[b].status \in Terminal
        /\ cb[p].booking = b /\ cb[p].result = "already_finalized"

\* C2: of two accept/reject callbacks of the owner on the same booking at
\* most one is applied, its outcome is the persisted status, and the other
\* answers "already finalized"; both lose only when a third actor (the
\* sweeper or another callback) finalized the booking first.
C2_ExactlyOneApplied ==
    \A p, q \in CbIds :
        (/\ p # q /\ Answered(p) /\ Answered(q)
         /\ cb[p].booking = cb[q].booking /\ ByOwner(p) /\ ByOwner(q))
        => LET b == cb[p].booking IN
           /\ {cb[p].result, cb[q].result} \subseteq {"applied", "already_finalized"}
           /\ ~(cb[p].result = "applied" /\ cb[q].result = "applied")
           /\ cb[p].result = "applied" => bookings[b].status = Outcome(cb[p].kind)
           /\ (cb[p].result # "applied" /\ cb[q].result # "applied")
                => \/ bookings[b].status = "timeout"
                   \/ \E r \in CbIds \ {p, q} : cb[r].booking = b /\ cb[r].result = "applied"

\* the loser has answered while the winner's handler is still running
C2_Witness ==
    \E p, q \in CbIds :
        /\ p # q
        /\ cb[q].pc = "notify" /\ cb[q].result = "applied"
        /\ cb[p].pc = "done" /\ cb[p].result = "already_finalized"
        /\ cb[p].booking = cb[q].booking /\ ByOwner(p) /\ ByOwner(q)

C4_OneSweepPerBooking ==
    \A b \in BookingIds :
        /\ swept[b] = (IF bookings[b].status = "timeout" THEN 1 ELSE 0)
        /\ Cardinality({s \in SweeperIds : b \in sw[s].got}) + userMsgs[b]["timeout"] = swept[b]

\* one sweep has returned the booking while another one still has it among
\* the rows of its snapshot
C4_Witness ==
    \E b \in BookingIds, s1, s2 \in SweeperIds :
        /\ s1 # s2 /\ b \in sw[s1].got
        /\ sw[s2].pc = "scan" /\ b \in sw[s2].todo

\* C5: at the end of the statement of a sweeper tick, every booking whose
\* COALESCE(dispatched_at, created_at) + 5 min is earlier than NOW() is in
\* a terminal status.
C5_ExpiredAreTerminal ==
    \A s \in SweeperIds :
        (sw[s].pc = "scan" /\ sw[s].todo = {})
        => \A b \in BookingIds :
              (Exists(b) /\ COALESCE(bookings[b].dispatched_at, bookings[b].created_at)
                              + Interval < sw[s].t)
              => bookings[b].status \in Terminal

\* a tick that has just timed a booking out
C5_Witness ==
    \E s \in SweeperIds, b \in BookingIds :
        /\ sw[s].pc = "scan" /\ sw[s].todo = {} /\ b \in sw[s].got
        /\ bookings[b].status = "timeout"

\* C6: the status of a booking becomes accepted or rejected only in the
\* UPDATE step of a callback pressed by the booking's owner; a callback of
\* any other chat never gets past the owner check.
C6_OnlyOwnerDecides ==
    [][\A b \in BookingIds :
          (bookings'[b].status # bookings[b].status
             /\ bookings'[b].status \in {"accepted", "rejected"})
          => \E p \in CbIds :
                /\ cb[p].pc = "update" /\ cb[p].booking = b
                /\ cb[p].from_user = bookings[b].owner_user_id
                /\ cb'[p].result = "applied"]_vars

\* a stranger pressed a button of an open booking and was turned away
\* while the owner's own callback was in flight
C6_Witness ==
    \E p, q \in CbIds :
        /\ cb[p].result = "unauthorized" /\ ~ByOwner(p)
        /\ cb[q].booking = cb[p].booking /\ cb[q].pc = "update"
        /\ bookings[cb[p].booking].status \in NonTerminal

\* C7: a booking is in status sent, or has dispatched_at set, only after
\* an owner prompt for it was delivered, and the status becomes sent only
\* in the mark_booking_dispatched step of the dispatcher.
C7_SentOnlyAfterPrompt ==
    /\ [](\A b \in BookingIds :
            (bookings[b].status = "sent" \/ bookings[b].dispatched_at # NULL)
            => prompts[b] > 0)
    /\ [][\A b \in BookingIds :
            (bookings'[b].status = "sent" /\ bookings[b].status # "sent")
            => (confirm[b].pc = "mark" /\ confirm'[b].pc = "done")]_vars

\* a prompt was delivered and the booking was then marked sent
C7_Witness ==
    \E b \in BookingIds :
        bookings[b].status = "sent" /\ prompts[b] = 1 /\ bookings[b].dispatched_at # NULL

\* C8: a booking without an owner chat id (0 or NULL) is never in status
\* sent.
C8_NoOwnerNeverSent ==
    \A b \in BookingIds :
        (Exists(b) /\ ~Truthy(bookings[b].owner_user_id)) => bookings[b].status # "sent"

\* a booking on an ownerless listing went through the dispatcher
C8_Witness ==
    \E b \in BookingIds :
        /\ Exists(b) /\ ~Truthy(bookings[b].owner_user_id)
        /\ confirm[b].pc = "done" /\ bookings[b].status = "pending_partner"
\* the send of the owner prompt of booking b failed
SendFailed(b) == ownerSends[b] > prompts[b]

\* C9: when the send of the owner prompt fails, the dispatcher changes
\* nothing in the booking row (status pending_partner, dispatched_at and
\* partner_message_id NULL), sends the unreachable notice once to every
\* admin, does not send the prompt again and reports failure; the only
\* later change of the row is the sweeper's timeout, which eventually comes.
C9_SendFailureEscalates ==
    /\ [](\A b \in BookingIds :
            SendFailed(b) =>
              /\ bookings[b].dispatched_at = NULL
              /\ bookings[b].partner_message_id = NULL
              /\ bookings[b].status \in {"pending_partner", "timeout"}
              /\ bookings[b].status = "timeout" => swept[b] = 1
              /\ ownerSends[b] = 1
              /\ confirm[b].pc \in {"escalate", "done"}
              /\ confirm[b].pc = "done" =>
                    /\ confirm[b].success = FALSE
                    /\ confirm[b].reply = "saved_unreachable"
                    /\ \A a \in ADMINS : adminMsgs[b]["unreachable"][a] = 1)
    /\ [][\A b \in BookingIds :
            (confirm[b].pc = "escalate" /\ confirm'[b].pc = "done")
            => bookings'[b] = bookings[b]]_vars
    /\ \A b \in BookingIds :
          (SendFailed(b) /\ bookings[b].created_at + Interval < LastTick)
             ~> (bookings[b].status = "timeout")

\* the dispatcher has returned after a failed send, every admin has the
\* notice, and the sweeper has timed the booking out
C9_Witness ==
    \E b \in BookingIds :
        /\ SendFailed(b) /\ confirm[b].pc = "done"
        /\ \A a \in ADMINS : adminMsgs[b]["unreachable"][a] = 1
        /\ bookings[b].status = "timeout"

\* C10: when the dispatcher finds no owner chat id for the booking, it
\* leaves the status pending_partner and, before it returns, every admin
\* has been sent an escalation notice with the partner's contact.
C10_NoOwnerEscalates ==
    \A b \in BookingIds :
        (confirm[b].pc = "done" /\ get_owner_id(bookings[b]) = 0)
        => /\ bookings[b].status \in {"pending_partner", "timeout"}
           /\ \A a \in ADMINS :
                 adminMsgs[b]["unreachable"][a] + adminMsgs[b]["timeout"][a] >= 1

\* deadline of a booking row for the sweeper
Deadline(b) == COALESCE(bookings[b].dispatched_at, bookings[b].created_at) + Interval

\* C14: a booking becomes timeout only in a sweep whose NOW() is later than
\* COALESCE(dispatched_at, created_at) + 5 min, so no sweep that runs at or
\* before the deadline returns it; and when a sweep that runs after
\* created_at + 5 min ends, a never-dispatched booking is timed out (or the
\* owner has decided it in the meantime).
C14_TimeoutOnlyAfterDeadline ==
    /\ [][\A b \in BookingIds :
            (bookings'[b].status = "timeout" /\ bookings[b].status # "timeout")
            => \E s \in SweeperIds :
                  /\ sw[s].pc = "scan" /\ b \in sw[s].todo
                  /\ Deadline(b) < sw[s].t /\ sw[s].t <= now]_vars
    /\ [](\A s \in SweeperIds, b \in BookingIds :
            (sw[s].pc = "scan" /\ b \in sw[s].got) => Deadline(b) < sw[s].t)
    /\ [](\A s \in SweeperIds, b \in BookingIds :
            (/\ sw[s].pc = "scan" /\ sw[s].todo = {}
             /\ Exists(b) /\ bookings[b].dispatched_at = NULL
             /\ bookings[b].created_at + Interval < sw[s].t)
            => \/ bookings[b].status = "timeout"
               \/ \E p \in CbIds : cb[p].booking = b /\ cb[p].result = "applied")

\* a sweep that ran exactly at the deadline of a never-dispatched booking
\* left it alone, and a later sweep has timed it out
C14_Witness ==
    \E b \in BookingIds, s1, s2 \in SweeperIds :
        /\ bookings[b].dispatched_at = NULL /\ bookings[b].status = "timeout"
        /\ sw[s1].pc = "scan" /\ sw[s1].t = bookings[b].created_at + Interval
        /\ sw[s1].got = {} /\ sw[s1].todo = {}
        /\ sw[s2].pc = "scan" /\ b \in sw[s2].got

\* C15: once confirm_booking has replied, the reply is "sent, wait up to
\* 5 min" exactly when the owner prompt was delivered and the booking was
\* marked sent (dispatched_at set); otherwise it is "saved but partner
\* unreachable".
C15_ReplyMatchesDispatch ==
    \A b \in BookingIds :
        confirm[b].pc = "done"
        => /\ confirm[b].reply \in {"sent_wait", "saved_unreachable"}
           /\ confirm[b].reply = "sent_wait"
                <=> (prompts[b] > 0 /\ bookings[b].dispatched_at # NULL)

C16_FailureIsDistinguishable ==
    \A f \in dbFailed :
        /\ f.returned # NormalNegative(f.fn)
        /\ f.answer \notin {"already_finalized", "no_expired"}

\* ^\+\d{11,16}$
MatchesUserPhone(phone) ==
    /\ Len(phone) >= 1 /\ phone[1] = "+"
    /\ isdigit(Tail(phone))
    /\ Len(phone) - 1 >= 11 /\ Len(phone) - 1 <= 16

\* C19: the phone of every row of the users table is a plus sign followed
\* by 11 to 16 digits and nothing else.
C19_UserPhoneFormat ==
    \A r \in users : MatchesUserPhone(r.phone)

\* C20: the users table never holds two rows with the same chat id, and
\* once a registration was completed for the chat its single row holds the
\* phone and the names of the latest completion.
C20_OneUserLatestValues ==
    /\ Cardinality(user_rows(ChatId)) <= 1
    /\ completed.n >= 1 =>
          user_rows(ChatId) = {[telegram_id |-> ChatId, phone |-> completed.phone,
                                first_name |-> completed.first_name,
                                last_name |-> completed.last_name]}

\* the registration was completed a second time
C20_Witness ==
    /\ completed.n = 2
    /\ Cardinality(users) = 1
    /\ \E r \in users : r.telegram_id = ChatId /\ r.last_name = completed.last_name

\* C11: every booking written has a payload with 1 to 10 guest names, a
\* phone and a date, whatever the chat sent before: restarted flows, cleared
\* state and buttons of old messages included.
C11_BookingFromCompletedForm ==
    \A i \in 1..Len(booked) :
        LET payload == booked[i].payload IN
        /\ payload.guest_names.t = "val"
        /\ Len(payload.guest_names.v) >= 1 /\ Len(payload.guest_names.v) <= 10
        /\ payload.phone.t = "val" /\ payload.phone.v # <<>>
        /\ payload.date.t = "val" /\ payload.date.v # <<>>

\* C12: in every state of a conversation, /cancel or a cancel button leaves
\* the chat with no conversation state and an empty context, so /cancel is
\* never stored as the value of a field.
C12_CancelAlwaysClears ==
    [][(last'.cancel /\ fsm.state # "none") => fsm' = IdleFsm]_vars

\* C13: every saved listing of category hotel or place has its latitude and
\* longitude set and at least one photo.
C13_HotelPlaceHaveLocationAndPhoto ==
    \A i \in 1..Len(saved) :
        saved[i].category \in {"hotel", "place"} =>
            /\ saved[i].latitude.t = "val"
            /\ saved[i].longitude.t = "val"
            /\ Len(saved[i].photos) >= 1

\* the flow a conversation state belongs to
FlowOfState(state) ==
    IF state \in AddListingStates THEN "wiz"
    ELSE IF state \in BrowseStates \cup BookingFormStates THEN "uf"
    ELSE IF state \in RegistrationStates THEN "reg"
    ELSE "none"

\* C18: a button of one flow (wiz:* or uf:*) pressed while the conversation
\* of the chat belongs to another flow, or while there is none, changes
\* neither the conversation state nor its context.
C18_CrossFlowCallbackIsInert ==
    [][(last'.type = "callback" /\ last'.flow # FlowOfState(fsm.state))
          => fsm' = fsm]_vars

\* C21: in the registration contact state a shared contact whose user id
\* is not the sender's is rejected: the conversation stays in the contact
\* state and its data, the phone included, is what it was.
C21_ForeignContactRejected ==
    [][(fsm.state = "Registration:contact" /\ last'.type = "contact" /\ ~last'.own)
          => fsm' = fsm]_vars

\* a foreign contact was sent in the contact state: the state is still the
\* contact state and no phone is in the context
C21_Witness ==
    /\ fsm.state = "Registration:contact"
    /\ last.type = "contact" /\ ~last.own
    /\ Get(fsm.data, "phone", None) = None

\* the names a text gives, one per non-blank line
NamesGiven(text) ==
    SelectSeq([i \in 1..Len(splitlines(strip(text))) |-> strip(splitlines(strip(text))[i])],
              LAMBDA ln : ln # <<>>)

\* the phone step of the booking form
PhoneSteps == {"BookingForm:phone_choice", "BookingForm:phone_manual"}

\* C22: in the guest_count step 0 and 11 are rejected and leave the state
\* as it is; 1 makes the guest list exactly the registered name and goes to
\* the phone step (when the user's row is found); 2 goes to
\* extra_guest_names (when the user's row is found), and that step accepts
\* only a text giving exactly one extra name.
C22_GuestCountAndExtraNames ==
    [][/\ (fsm.state = "BookingForm:guest_count" /\ last'.type = "text") =>
             /\ last'.text \in {T_zero, T_eleven} => fsm' = fsm
             /\ (last'.text = T_one /\ fsm' # IdleFsm) =>
                   /\ fsm'.state \in PhoneSteps
                   /\ Get(fsm'.data, "guest_names", None)
                        = V(<<strip(RegisteredUser.first_name \o <<" ">>
                                      \o RegisteredUser.last_name)>>)
             /\ (last'.text = T_two /\ fsm' # IdleFsm) =>
                   fsm'.state = "BookingForm:extra_guest_names"
       /\ (/\ fsm.state = "BookingForm:extra_guest_names"
           /\ Get(fsm.data, "guest_count", None) = V(2)
           /\ last'.type = "text"
           /\ fsm'.state \in PhoneSteps) =>
             Len(NamesGiven(last'.text)) = 1
      ]_vars

\* C23: in the add-listing wizard a title shorter than 3 characters, /done
\* or /skip with no photo when the category requires photos, and /skip of
\* the location when the category requires a location are each rejected:
\* the wizard keeps its state and its data.
C23_WizardRejectsInvalidInput ==
    [][last'.type = "text" =>
         LET category == Get(fsm.data, "category", V("")).v
             photos == Get(fsm.data, "photos", V(<<>>)).v
             text == lower(strip(last'.text))
         IN /\ (fsm.state = "AddListing:title" /\ Len(strip(last'.text)) < 3)
                  => fsm' = fsm
            /\ (/\ fsm.state = "AddListing:photos"
                /\ category \in {"hotel", "place"}
                /\ text \in {T_done, T_skip}
                /\ photos = <<>>) => fsm' = fsm
            /\ (/\ fsm.state = "AddListing:location"
                /\ category \in {"hotel", "place"}
                /\ text = T_skip) => fsm' = fsm
      ]_vars

\* /done was sent for a place listing with no photo, and the wizard is
\* still in the photos step
C23_Witness ==
    /\ fsm.state = "AddListing:photos"
    /\ Get(fsm.data, "category", None) = V("place")
    /\ Get(fsm.data, "photos", V(<<>>)) = V(<<>>)
    /\ last.type = "text" /\ last.text = T_done

\* C24: the photos list of every saved listing has between 0 and 5
\* entries, whatever photo messages were sent during the photos step and
\* however their handlers interleaved.
C24_PhotosAtMostFive ==
    \A i \in 1..Len(saved) : Len(saved[i].photos) \in 0..5

\* a listing was saved with five photos while the handler of a further
\* photo message was still running
C24_Witness ==
    /\ \E i \in 1..Len(saved) : Len(saved[i].photos) = 5
    /\ \E h \in PhotoTaskIds : photoTasks[h].pc = "update_data"

\* the digits of an Uzbek number: 998 and nine digits, or nine digits of
\* which the first is 3..9
UzDigits(d) ==
    \/ Len(d) = 12 /\ SubSeq(d, 1, 3) = <<"9", "9", "8">>
    \/ Len(d) = 9 /\ d[1] \in {"3", "4", "5", "6", "7", "8", "9"}

\* C25: the manual phone step accepts exactly the inputs whose digits are
\* 998 followed by nine digits, or nine digits starting with 3..9, and what
\* it stores is always + followed by twelve digits; +998901234567,
\* 998901234567 and 901234567 all give +998901234567, and +123 is rejected.
C25_NormalizeUzPhone ==
    [][(/\ fsm.state = "BookingForm:phone_manual"
        /\ last'.type = "text"
        /\ last'.text \in PhoneInputs) =>
          LET d == digits_of(last'.text)
              phone == Get(fsm'.data, "booking_phone", None)
          IN /\ UzDigits(d) <=> fsm'.state = "BookingForm:date"
             /\ ~UzDigits(d) => fsm' = fsm
             /\ UzDigits(d) =>
                  /\ phone # None
                  /\ Len(phone.v) = 13
                  /\ phone.v[1] = "+"
                  /\ \A i \in 2..13 : phone.v[i] \in Digits
             /\ last'.text \in {<<"+">> \o ContactPhoneBare, ContactPhoneBare, T_local_phone}
                  => phone = V(<<"+">> \o ContactPhoneBare)
             /\ last'.text = <<"+", "1", "2", "3">> => fsm' = fsm
      ]_vars

\* 901234567 was typed and +998901234567 is in the form
C25_Witness ==
    /\ fsm.state = "BookingForm:date"
    /\ last.text = T_local_phone
    /\ Get(fsm.data, "booking_phone", None) = V(<<"+">> \o ContactPhoneBare)

\* every table, column and index of a new installation is there
Bootstrapped(db) ==
    /\ BootstrappedDb.tables \subseteq db.tables
    /\ BootstrappedDb.columns \subseteq db.columns
    /\ BootstrappedDb.indexes \subseteq db.indexes

C27_ResetOnlyWhenTrue ==
    [][(schemaOp'.resets = schemaOp.resets + 1 /\ schemaOp'.value # <<"t", "r", "u", "e">>)
          => (~schemaOp'.ok /\ schema' = schema)]_vars

C29_SecondMarkIsNoOp ==
    \A b \in BookingIds :
        (/\ Len(marks[b]) >= 2
         /\ marks[b][1].updated
         /\ marks[b][1].partner_msg_id # marks[b][2].partner_msg_id)
        => /\ bookings[b].partner_message_id = marks[b][1].partner_msg_id
           /\ bookings[b].dispatched_at = marks[b][1].at
           /\ ~marks[b][2].updated

\* a booking was marked twice with different message ids, the second time
\* at a later instant
C29_Witness ==
    \E b \in BookingIds :
        /\ Len(marks[b]) >= 2
        /\ marks[b][1].updated
        /\ marks[b][1].partner_msg_id # marks[b][2].partner_msg_id
        /\ marks[b][2].at > marks[b][1].at

\* C30: for every booking a sweep returned, the timeout notice to the
\* booking's user and to every admin is attempted, also when notices of
\* another booking of the batch failed: once the loop sleeps again no
\* notice of the batch is left unattempted, and while it works through the
\* batch none is skipped.
C30_EveryNoticeAttempted ==
    \A b \in BatchIds, r \in 1..Len(TimeoutRecipients) :
        (/\ b <= sweepLoop.expired
         /\ \/ sweepLoop.pc = "sleep"
            \/ b < sweepLoop.booking
            \/ b = sweepLoop.booking /\ r < sweepLoop.recipient)
        => notices[b][r] # "none"

\* the loop sleeps after a batch of two bookings: every notice of the
\* first booking failed, every notice of the second one was attempted
C30_Witness ==
    /\ sweepLoop.pc = "sleep"
    /\ sweepLoop.expired >= 2
    /\ \A r \in 1..Len(TimeoutRecipients) : notices[1][r] = "failed"
    /\ \A r \in 1..Len(TimeoutRecipients) : notices[2][r] # "none"

\* C31: when the timeout checker is cancelled while it works through a
\* batch of expired bookings, it finishes the notices of the batch before it
\* exits: once the task has stopped no notice of the batch is unattempted.
C31_CancelFinishesBatch ==
    sweepLoop.pc = "stopped" =>
        \A b \in BatchIds, r \in 1..Len(TimeoutRecipients) :
            b <= sweepLoop.expired => notices[b][r] # "none"

\* C32: retry_telegram makes at most 3 attempts, every attempt makes the
\* call again (so that a success on any attempt is returned), and a call
\* that ends with an exception ends with the transport's own error after
\* the attempts are used up.
C32_RetryMakesTheCallAgain ==
    /\ retry.attempt <= max_retries
    /\ retry.calls = retry.attempt
    /\ retry.result \in {"none", "returned", "TelegramRetryAfter", "TelegramAPIError"}

C34_NoDuplicateInWindow ==
    (errorReports.last.sent /\ errorReports.last.before # NULL)
    => errorReports.now - errorReports.last.before >= THROTTLE_SECONDS

\* C35: after every call of _should_send the cache holds at most 100
\* hashes, and what an eviction removes was recorded no later than anything
\* it keeps; the hash just recorded stays.
C35_CacheBoundedKeepsNewest ==
    /\ Len(error_cache) <= CacheLimit
    /\ \A e \in errorReports.last.evicted :
          \A i \in 1..Len(error_cache) : e.at <= error_cache[i].at
    /\ errorReports.last.evicted # {} =>
          /\ Cardinality(errorReports.last.evicted) = EvictCount
          /\ \E i \in 1..Len(error_cache) :
                error_cache[i].error_hash = errorReports.last.error_hash

\* an eviction took place in a cache whose entries were recorded at
\* different times
C35_Witness ==
    /\ errorReports.last.evicted # {}
    /\ \E e \in errorReports.last.evicted : e.at < errorReports.now
    /\ \E e \in errorReports.last.evicted : e.at = errorReports.now

\* C36: one completed booking form yields at most one bookings row and at
\* most one owner prompt, also when the confirm button is pressed twice and
\* the two callbacks are handled at the same time.
C36_OneBookingPerForm ==
    /\ form.rows <= 1
    /\ form.prompts <= 1

\* C37: every booking in status accepted or rejected has dispatched_at and
\* partner_message_id set: an owner decision is recorded only on a booking
\* whose dispatch was recorded.
C37_DecidedWasDispatched ==
    \A b \in BookingIds :
        bookings[b].status \in {"accepted", "rejected"}
        => /\ bookings[b].dispatched_at # NULL
           /\ bookings[b].partner_message_id # NULL

\* C38: a booking is created only against a listing that exists and is
\* active at the moment of creation, also when the owner deactivates or
\* deletes the listing while the user looks at cards or fills the form.
C38_BookedListingWasActive ==
    \A i \in 1..Len(bookingFlow.created) : bookingFlow.created[i].listing_was = "active"

\* C39: a toggle or delete issued from /my_listings changes only a listing
\* whose owner is the calling admin (and whose id starts with the short id
\* of the button); the listings of other owners and all other listings of
\* the caller are left as they were.
C39_OnlyOwnListingChanges ==
    [][\A l \in 1..Len(MyListingRows) :
          adminListings'[l] # adminListings[l]
          => \E c \in ADMINS :
                /\ mylTasks[c].pc = "update" /\ mylTasks'[c].pc = "done"
                /\ MyListingRows[l].telegram_admin_id = c
                /\ MyListingRows[l].short = mylTasks[c].short
                /\ \A m \in 1..Len(MyListingRows) :
                      m # l => adminListings'[m] = adminListings[m]]_vars

\* the second admin pressed the buttons of a listing whose id starts like
\* listings of the first admin: their own listing is gone, the others are
\* untouched
C39_Witness ==
    /\ mylTasks[OtherAdmin].pc = "done"
    /\ mylTasks[OtherAdmin].op = "delete"
    /\ adminListings[2] = "deleted"
    /\ adminListings[1] = "active" /\ adminListings[4] = "active"

\* C40: an accept or reject callback pressed on the prompt of booking B
\* resolves to B and changes the status of B only, never that of another
\* booking.
C40_PressChangesOnlyThatBooking ==
    [][/\ promptTask'.pc # "idle" => promptTask'.booking = promptTask'.pressed
       /\ \A b \in 1..Len(PromptRows) :
             (promptStatus'[b] # promptStatus[b] /\ promptStatus'[b] \in {"accepted", "rejected"})
             => promptTask.pressed = b]_vars

====
